---- MODULE Spec2Model ----
(***************************************************************************)
(* The class-definition index of css-classes-lsp (src/core/css-index.ts)   *)
(* and the server code that drives it (src/server.ts), as a state machine. *)
(*                                                                         *)
(* File contents are drawn from a small table of stylesheets and template  *)
(* files; a content is identified by a short name and the table records    *)
(* what the parsers, the import resolver and the source-map finder return  *)
(* for it.  All paths live in one directory, so path.resolve(dirname(p),s) *)
(* is s.  A definition record keeps className, filePath, line and column;  *)
(* endLine, endColumn, rawSelector, nested and bem are carried along by    *)
(* the code unchanged and are left out.                                    *)
(*                                                                         *)
(* An async method is a task: its record holds the locals that live across *)
(* an await, and pc names the await it is suspended at.  One action is the *)
(* synchronous run of code from one await to the next.                     *)
(***************************************************************************)
EXTENDS Integers, Sequences, FiniteSets, TLC

VARIABLES
    classIndex,          \* the CssClassIndex object: its six maps
    config,              \* CssClassIndex.config
    disk,                \* the file system: path -> content name or NoFile
    tasks,               \* the async CssClassIndex calls in flight
    hist,                \* history: the last two whole calls and the maps around them
    everIndexed,         \* history: the paths an indexing call has been made for
    ncalls,              \* history: the number of calls made on the index
    indexReady,          \* server.ts: let indexReady
    indexingInProgress,  \* server.ts: let indexingInProgress
    siw,                 \* the safeIndexWorkspace calls in flight
    reqs,                \* the request handlers inside waitForIndex
    microtasks           \* the promise reactions queued but not yet run

indexVars  == <<classIndex, config, disk, tasks, hist, everIndexed, ncalls>>
serverVars == <<indexReady, indexingInProgress, siw, reqs, microtasks>>
vars       == <<classIndex, config, disk, tasks, hist, everIndexed, ncalls,
                indexReady, indexingInProgress, siw, reqs, microtasks>>

(***************************************************************************)
(* Bounds                                                                  *)
(***************************************************************************)
MaxTasks == 2      \* async index calls in flight at once
MaxOps   == 2      \* calls made on the index through its interface
MaxCalls == 3      \* safeIndexWorkspace calls the server makes
MaxReqs  == 1      \* request handlers waiting at once

(***************************************************************************)
(* Input data                                                              *)
(***************************************************************************)
NoFile    == "<none>"        \* readFileContent returns null
Undefined == "<undefined>"   \* the optional content argument is not given
NoMap     == [sources |-> <<>>, mappings |-> "", found |-> FALSE]

StylePaths    == {"a.css", "b.scss", "_p.scss"}
TemplatePaths == {"t.vue"}
Paths         == StylePaths \cup TemplatePaths

\* The one source map of the table: its only segment, AAGE, says that
\* generated (0,0) of a.css comes from line 3, column 2 of b.scss.
MapToB == [sources |-> <<"b.scss">>, mappings |-> "AAGE", found |-> TRUE]

\* The stylesheet texts.  classes: what the regex parser finds (name, line,
\* column of the selector start); map: the V3 map the text's sourceMappingURL
\* comment names, as parseSourceMap returns it.
Stylesheets ==
    [c \in {"", "btn", "btn+map", "card", "blk", "@p", "@q", "@b", "@p@q"} |->
      CASE c = "" ->
             [classes |-> <<>>, mixins |-> <<>>, extends |-> <<>>,
              includes |-> <<>>, imports |-> <<>>, map |-> NoMap]
        [] c = "btn" ->         \* .btn {}
             [classes |-> << [className |-> "btn", line |-> 0, column |-> 0] >>,
              mixins |-> <<>>, extends |-> <<>>, includes |-> <<>>,
              imports |-> <<>>, map |-> NoMap]
        [] c = "btn+map" ->     \* .btn {} /*# sourceMappingURL=a.css.map */
             [classes |-> << [className |-> "btn", line |-> 0, column |-> 0] >>,
              mixins |-> <<>>, extends |-> <<>>, includes |-> <<>>,
              imports |-> <<>>, map |-> MapToB]
        [] c = "card" ->        \* @use "p"; @mixin m {} .card { @include m; @extend .btn; }
             [classes |-> << [className |-> "card", line |-> 2, column |-> 0] >>,
              mixins   |-> << [name |-> "m", line |-> 1] >>,
              extends  |-> << [targetClassName |-> "btn", sourceClassName |-> "card",
                               line |-> 2] >>,
              includes |-> << [mixinName |-> "m", contextClassName |-> "card",
                               line |-> 2] >>,
              imports  |-> << "p" >>, map |-> NoMap]
        [] c = "blk" ->         \* <newline>.btn {}   (the text of a style block)
             [classes |-> << [className |-> "btn", line |-> 1, column |-> 0] >>,
              mixins |-> <<>>, extends |-> <<>>, includes |-> <<>>,
              imports |-> <<>>, map |-> NoMap]
        [] c = "@p" ->          \* @use "p"; <newline> .btn {}
             [classes |-> << [className |-> "btn", line |-> 1, column |-> 0] >>,
              mixins |-> <<>>, extends |-> <<>>, includes |-> <<>>,
              imports |-> << "p" >>, map |-> NoMap]
        [] c = "@q" ->          \* @use "q"; <newline> .btn {}
             [classes |-> << [className |-> "btn", line |-> 1, column |-> 0] >>,
              mixins |-> <<>>, extends |-> <<>>, includes |-> <<>>,
              imports |-> << "q" >>, map |-> NoMap]
        [] c = "@b" ->          \* @import "b"; <newline> .btn {}
             [classes |-> << [className |-> "btn", line |-> 1, column |-> 0] >>,
              mixins |-> <<>>, extends |-> <<>>, includes |-> <<>>,
              imports |-> << "b" >>, map |-> NoMap]
        [] c = "@p@q" ->        \* @use "p"; <newline> @use "q"; <newline> .btn {}
             [classes |-> << [className |-> "btn", line |-> 2, column |-> 0] >>,
              mixins |-> <<>>, extends |-> <<>>, includes |-> <<>>,
              imports |-> << "p", "q" >>, map |-> NoMap]]

\* A content named "map:" followed by a mappings string is the text
\*   .btn {} <newline> .card {} /*# sourceMappingURL=data:...;base64,... */
\* whose inline V3 map has sources ["b.scss"] and that mappings string.
IsMapped(content) == Len(content) >= 4 /\ SubSeq(content, 1, 4) = "map:"

Sheet(content) ==
    IF IsMapped(content)
    THEN [classes |-> << [className |-> "btn", line |-> 0, column |-> 0],
                         [className |-> "card", line |-> 1, column |-> 0] >>,
          mixins |-> <<>>, extends |-> <<>>, includes |-> <<>>, imports |-> <<>>,
          map |-> [sources |-> <<"b.scss">>,
                   mappings |-> SubSeq(content, 5, Len(content)), found |-> TRUE]]
    ELSE Stylesheets[content]

\* The template texts: their <style> blocks as extractStyleBlocks returns them.
Templates ==
    [c \in {"", "tpl"} |->
      CASE c = "" -> <<>>
        [] c = "tpl" ->         \* <template/> \n <style lang="scss"> \n .btn{} </style> <style>.btn {}</style>
             << [content |-> "blk", lineOffset |-> 1, lang |-> "scss"],
                [content |-> "btn", lineOffset |-> 3, lang |-> "css"] >>]

TemplateContents == {"tpl"}                      \* contents handed to indexEmbeddedStyles

\* The workspaces the file system is drawn from.
Disks ==
    { [p \in Paths |-> CASE p = "a.css"   -> "btn+map"
                         [] p = "b.scss"  -> "card"
                         [] p = "_p.scss" -> "btn"
                         [] p = "t.vue"   -> "tpl"],
      [p \in Paths |-> CASE p = "a.css"   -> "btn"
                         [] p = "b.scss"  -> NoFile
                         [] p = "_p.scss" -> NoFile
                         [] p = "t.vue"   -> "" ] }

Configs == [experimentalTreeSitter : BOOLEAN, searchEmbeddedStyles : BOOLEAN]
DEFAULT_CONFIG == [experimentalTreeSitter |-> FALSE, searchEmbeddedStyles |-> TRUE]

(***************************************************************************)
(* Maps (JavaScript Map objects) as functions with a growing domain        *)
(***************************************************************************)
EmptyMap == [k \in {} |-> <<>>]
Get(m, k, dflt) == IF k \in DOMAIN m THEN m[k] ELSE dflt
Put(m, k, v) == [x \in (DOMAIN m) \cup {k} |-> IF x = k THEN v ELSE m[x]]
Range(s) == {s[i] : i \in DOMAIN s}

EmptyIndex ==
    [index |-> EmptyMap, fileIndex |-> EmptyMap, mixinIndex |-> EmptyMap,
     extendIndex |-> EmptyMap, includeIndex |-> EmptyMap, fileDirectives |-> EmptyMap]

(***************************************************************************)
(* Parsers and resolvers, by their results on the contents of the table    *)
(***************************************************************************)
\* parsers/css-parser.ts parseCssClasses: the definitions of a stylesheet.
parseCssClasses(content, filePath) ==
    [i \in DOMAIN Sheet(content).classes |->
        [className |-> Sheet(content).classes[i].className,
         filePath  |-> filePath,
         line      |-> Sheet(content).classes[i].line,
         column    |-> Sheet(content).classes[i].column]]

\* parsers/treesitter/css-parser.ts parseCssClasses: the same classes, each at
\* the start of its class_name node, one column after the dot.
tsParseCssClasses(content, filePath) ==
    [i \in DOMAIN Sheet(content).classes |->
        [className |-> Sheet(content).classes[i].className,
         filePath  |-> filePath,
         line      |-> Sheet(content).classes[i].line,
         column    |-> Sheet(content).classes[i].column + 1]]

\* parseClasses deciding by the file extension alone
UsesTreeSitterByPathOnly(cfg, filePath, langHint) ==
    cfg.experimentalTreeSitter
    /\ ~(Len(filePath) >= 5 /\ SubSeq(filePath, Len(filePath) - 4, Len(filePath)) = ".scss")

\* CssClassIndex.parseClasses up to its await: TRUE when the tree-sitter
\* backend is called, FALSE when the regex parser answers directly.
UsesTreeSitter(cfg, filePath, langHint) ==
    LET endsWith(str, suffix) ==
            Len(str) >= Len(suffix)
            /\ SubSeq(str, Len(str) - Len(suffix) + 1, Len(str)) = suffix
        isScss == langHint = "scss" \/ langHint = "sass" \/ endsWith(filePath, ".scss")
    IN  cfg.experimentalTreeSitter /\ ~isScss

\* CssClassIndex.parseClasses: the value its promise resolves to; tsOk says
\* whether the tree-sitter backend returned or threw.
parseClasses(content, filePath, viaTs, tsOk) ==
    IF viaTs /\ tsOk THEN tsParseCssClasses(content, filePath)
                     ELSE parseCssClasses(content, filePath)

\* parsers/css-parser.ts parseScssDirectives
parseScssDirectives(content, filePath) ==
    LET s == Sheet(content) IN
    [mixins   |-> [i \in DOMAIN s.mixins |->
                     [name |-> s.mixins[i].name, filePath |-> filePath,
                      line |-> s.mixins[i].line]],
     extends  |-> [i \in DOMAIN s.extends |->
                     [targetClassName |-> s.extends[i].targetClassName,
                      sourceClassName |-> s.extends[i].sourceClassName,
                      filePath |-> filePath, line |-> s.extends[i].line]],
     includes |-> [i \in DOMAIN s.includes |->
                     [mixinName |-> s.includes[i].mixinName,
                      contextClassName |-> s.includes[i].contextClassName,
                      filePath |-> filePath, line |-> s.includes[i].line]]]

\* parsers/css-parser.ts extractStyleBlocks
extractStyleBlocks(content) == Templates[content]

\* utils/sourcemap.ts findSourceMap: the map file the sourceMappingURL comment
\* of the content names, read from the directory of the stylesheet.
findSourceMap(cssFilePath, cssContent) ==
    [map |-> Sheet(cssContent).map, mapFilePath |-> "a.css.map"]

VLQ_CHARS == "ABCDEFGHIJKLMNOPQRSTUVWXYZabcdefghijklmnopqrstuvwxyz0123456789+/"

\* VLQ_LOOKUP.get(ch): the index of ch in VLQ_CHARS, -1 for undefined
VLQ_LOOKUP(ch) ==
    LET hits == { i \in 1..Len(VLQ_CHARS) : SubSeq(VLQ_CHARS, i, i) = ch }
    IN  IF hits = {} THEN -1 ELSE (CHOOSE i \in hits : TRUE) - 1

\* decodeVlq: the value read at pos (zero-based) and the position after it,
\* or threw when a character is no VLQ digit.  The digits' 5-bit groups do not
\* overlap, so |= adds; mappings are short enough for the shift to stay below
\* 32.
decodeVlq(mappings, pos) ==
    LET RECURSIVE Digits(_, _, _)
        Digits(p, result, shift) ==
            IF p >= Len(mappings) THEN [result |-> result, pos |-> p, threw |-> FALSE]
            ELSE LET digit == VLQ_LOOKUP(SubSeq(mappings, p + 1, p + 1))
                     r == result + (digit % 32) * 2^shift
                 IN  IF digit = -1 THEN [result |-> 0, pos |-> p, threw |-> TRUE]
                     ELSE IF digit \div 32 = 0
                     THEN [result |-> r, pos |-> p + 1, threw |-> FALSE]
                     ELSE Digits(p + 1, r, shift + 5)
    IN  \* the start position and the digits' outcome are each computed once
        CHOOSE v \in
            { [value |-> IF d.result % 2 # 0 THEN -(d.result \div 2)
                         ELSE d.result \div 2,
               newPos |-> d.pos, threw |-> d.threw] :
              d \in { Digits(start, 0, 0) : start \in {pos} } } : TRUE

\* decodeMappings: the segments of each generated line, or threw.  run holds
\* the running values generatedColumn, sourceIndex, originalLine,
\* originalColumn; the name index is decoded and dropped.
decodeMappings(mappings) ==
    LET Sep(pos) == pos >= Len(mappings)
                    \/ SubSeq(mappings, pos + 1, pos + 1) \in {",", ";"}
        Thrown == [threw |-> TRUE, lines |-> <<>>]
        RECURSIVE Decode(_, _, _, _)
        \* a segment of four fields, and the name index f5 when one follows
        Segment(lines, currentLine, run, f1, f2, f3, f4, f5) ==
            LET next == << run[1] + f1.value, run[2] + f2.value,
                           run[3] + f3.value, run[4] + f4.value >>
                segment == [generatedColumn |-> next[1], sourceIndex |-> next[2],
                            originalLine |-> next[3], originalColumn |-> next[4]]
            IN  IF f2.threw \/ f3.threw \/ f4.threw THEN Thrown
                ELSE IF Sep(f4.newPos)
                THEN Decode(f4.newPos, lines, Append(currentLine, segment), next)
                ELSE IF f5.threw THEN Thrown
                ELSE Decode(f5.newPos, lines, Append(currentLine, segment), next)
        Fields(lines, currentLine, run, f1) ==
            IF f1.threw THEN Thrown
            ELSE IF Sep(f1.newPos)
            THEN Decode(f1.newPos, lines, currentLine,
                        [run EXCEPT ![1] = run[1] + f1.value])
            ELSE CHOOSE out \in
                   { Segment(lines, currentLine, run, f1, f[1], f[2], f[3],
                             decodeVlq(mappings, f[3].newPos)) :
                     f \in { << f2, f3, decodeVlq(mappings, f3.newPos) >> :
                             <<f2, f3>> \in { << g2, decodeVlq(mappings, g2.newPos) >> :
                                   g2 \in { decodeVlq(mappings, f1.newPos) } } } } : TRUE
        \* the arguments and each field are computed once per call
        Decode(pos0, lines0, currentLine0, run0) ==
          CHOOSE out \in {
            IF pos > Len(mappings) THEN [threw |-> FALSE, lines |-> lines]
            ELSE IF pos = Len(mappings) \/ SubSeq(mappings, pos + 1, pos + 1) = ";"
            THEN Decode(pos + 1, Append(lines, currentLine), <<>>,
                        [run EXCEPT ![1] = 0])
            ELSE IF SubSeq(mappings, pos + 1, pos + 1) = ","
            THEN Decode(pos + 1, lines, currentLine, run)
            ELSE CHOOSE seg \in { Fields(lines, currentLine, run, f1) :
                                  f1 \in { decodeVlq(mappings, pos) } } : TRUE
            : <<pos, lines, currentLine, run>>
                  \in {<<pos0, lines0, currentLine0, run0>>} } : TRUE
    IN  Decode(0, <<>>, <<>>, << 0, 0, 0, 0 >>)

\* The last segment of a column-sorted line whose generatedColumn <= column,
\* scanning from the left and stopping at the first larger one; 0 when none.
RECURSIVE BestSegment(_, _, _, _)
BestSegment(lineSegments, generatedColumn, i, best) ==
    IF i > Len(lineSegments) THEN best
    ELSE IF lineSegments[i].generatedColumn <= generatedColumn
         THEN BestSegment(lineSegments, generatedColumn, i + 1, i)
         ELSE best

NoPosition == [found |-> FALSE, threw |-> FALSE, originalFilePath |-> "",
               originalLine |-> 0, originalColumn |-> 0]

\* utils/sourcemap.ts resolveOriginalPosition: null, a position, or an
\* exception: decodeMappings throws, or path.resolve does, given the
\* undefined that sources[sourceIndex] is for a negative index.
resolveOriginalPosition(map, generatedLine, generatedColumn, mapFilePath) ==
    LET Position(decoded) ==
          IF decoded.threw THEN [NoPosition EXCEPT !.threw = TRUE]
          ELSE IF generatedLine >= Len(decoded.lines) THEN NoPosition
          ELSE LET lineSegments == decoded.lines[generatedLine + 1] IN
               IF Len(lineSegments) = 0 THEN NoPosition
               ELSE LET b == BestSegment(lineSegments, generatedColumn, 1, 0)
                        bestSegment == lineSegments[IF b = 0 THEN 1 ELSE b]
                    IN  IF bestSegment.sourceIndex >= Len(map.sources) THEN NoPosition
                        ELSE IF bestSegment.sourceIndex < 0
                        THEN [NoPosition EXCEPT !.threw = TRUE]
                        ELSE [found |-> TRUE, threw |-> FALSE,
                              originalFilePath |-> map.sources[bestSegment.sourceIndex + 1],
                              originalLine     |-> bestSegment.originalLine,
                              originalColumn   |-> bestSegment.originalColumn]
    IN  \* line 190: the mappings are decoded once
        CHOOSE position \in { Position(decoded) :
                              decoded \in { decodeMappings(map.mappings) } } : TRUE

\* the index of the last "/" of a path, 0 when it has none (1-based)
LastSlash(p) ==
    LET at == {i \in 1..Len(p) : SubSeq(p, i, i) = "/"}
    IN  IF at = {} THEN 0 ELSE CHOOSE i \in at : \A j \in at : j <= i

\* path.basename and path.dirname (with its trailing separator; "" for ".")
basename(p) == SubSeq(p, LastSlash(p) + 1, Len(p))
dirname(p) == SubSeq(p, 1, LastSlash(p))

\* path.extname: from the last "." of the basename, "" when it has none or
\* only a leading one
extname(specifier) ==
    LET base == basename(specifier)
        dots == {i \in 2..Len(base) : SubSeq(base, i, i) = "."}
    IN  IF dots = {} THEN ""
        ELSE SubSeq(base, CHOOSE i \in dots : \A j \in dots : j <= i, Len(base))

\* buildResolutionCandidates pushing <resolved>.css before <resolved>.scss
buildResolutionCandidatesCssFirst(specifier) ==
    LET ext         == extname(specifier)
        resolved    == specifier
        dir         == dirname(resolved)
        base        == basename(resolved)
        partialBase == "_" \o (IF ext # "" THEN base ELSE base \o ".scss")
    IN  (IF ext # "" THEN << resolved >> ELSE <<>>)
        \o (IF ext = "" THEN << resolved \o ".css", resolved \o ".scss" >> ELSE <<>>)
        \o << dir \o partialBase >>
        \o (IF ext = "" THEN << dir \o "_" \o base \o ".css" >> ELSE <<>>)
        \o (IF ext = ""
            THEN << resolved \o "/_index.scss", resolved \o "/index.scss",
                    resolved \o "/_index.css", resolved \o "/index.css" >>
            ELSE <<>>)

\* core/import-resolver.ts buildResolutionCandidates.  Paths are written
\* relative to the directory of the importing file, so resolved is the
\* specifier.
buildResolutionCandidates(specifier) ==
    LET ext         == extname(specifier)
        resolved    == specifier
        dir         == dirname(resolved)
        base        == basename(resolved)
        partialBase == "_" \o (IF ext # "" THEN base ELSE base \o ".scss")
    IN  (IF ext # "" THEN << resolved >> ELSE <<>>)
        \o (IF ext = "" THEN << resolved \o ".scss", resolved \o ".css" >> ELSE <<>>)
        \o << dir \o partialBase >>
        \o (IF ext = "" THEN << dir \o "_" \o base \o ".css" >> ELSE <<>>)
        \o (IF ext = ""
            THEN << resolved \o "/_index.scss", resolved \o "/index.scss",
                    resolved \o "/_index.css", resolved \o "/index.css" >>
            ELSE <<>>)

\* resolveImportPath line 75: URLs and protocol-relative specifiers
IsUrl(specifier) ==
    \E prefix \in {"http://", "https://", "//"} :
        Len(specifier) >= Len(prefix) /\ SubSeq(specifier, 1, Len(prefix)) = prefix

\* core/import-resolver.ts resolveImportPath: the first candidate that can be
\* read (content !== null; an empty file exists), or NoFile.
RECURSIVE FirstExisting(_, _, _)
FirstExisting(candidates, i, d) ==
    IF i > Len(candidates) THEN NoFile
    ELSE IF candidates[i] \in DOMAIN d /\ d[candidates[i]] # NoFile THEN candidates[i]
    ELSE FirstExisting(candidates, i + 1, d)

resolveImportPath(specifier, d) ==
    IF IsUrl(specifier) THEN NoFile
    ELSE FirstExisting(buildResolutionCandidates(specifier), 1, d)

\* core/import-resolver.ts resolveFileImports: the resolvedPath of each import.
resolveFileImports(content, d) ==
    [i \in DOMAIN Sheet(content).imports |->
        resolveImportPath(Sheet(content).imports[i], d)]

\* scanner/workspace-scanner.ts readFileContent
readFileContent(d, filePath) == IF filePath \in DOMAIN d THEN d[filePath] ELSE NoFile

\* scanner/workspace-scanner.ts scanWorkspace: the stylesheets the include
\* patterns match; the partial _p.scss lies in an excluded directory.
scanWorkspace(d) ==
    SelectSeq(<< "a.css", "b.scss" >>, LAMBDA p : d[p] # NoFile)

\* scanner/workspace-scanner.ts scanTemplateFiles
scanTemplateFiles(d) ==
    SelectSeq(<< "t.vue" >>, LAMBDA p : d[p] # NoFile)

\* JavaScript truthiness of a string | null: !content
Falsy(content) == content = NoFile \/ content = ""

(***************************************************************************)
(* CssClassIndex: the synchronous methods, as functions of the maps        *)
(***************************************************************************)
\* CssClassIndex.lookup
lookup(ci, className) == Get(ci.index, className, <<>>)
\* CssClassIndex.lookupMixin
lookupMixin(ci, name) == Get(ci.mixinIndex, name, <<>>)
\* CssClassIndex.lookupExtenders
lookupExtenders(ci, className) == Get(ci.extendIndex, className, <<>>)
\* CssClassIndex.lookupIncludes
lookupIncludes(ci, mixinName) == Get(ci.includeIndex, mixinName, <<>>)

\* A slip of addDefinition: the class name is not recorded under its file.
addDefinitionNoMirror(ci, def) ==
    [ci EXCEPT
       !.index = Put(ci.index, def.className,
                     Append(Get(ci.index, def.className, <<>>), def))]

\* CssClassIndex.addDefinition
addDefinition(ci, def) ==
    [ci EXCEPT
       !.index     = Put(ci.index, def.className,
                         Append(Get(ci.index, def.className, <<>>), def)),
       !.fileIndex = Put(ci.fileIndex, def.filePath,
                         Get(ci.fileIndex, def.filePath, {}) \cup {def.className})]

\* for (const def of classes) this.addDefinition(def)
RECURSIVE addDefinitions(_, _, _)
addDefinitions(ci, defs, i) ==
    IF i > Len(defs) THEN ci
    ELSE addDefinitions(addDefinition(ci, defs[i]), defs, i + 1)

\* One loop of removeFile / removeDirectives: for every key the file recorded,
\* drop the file's records from the key's list, and the key when none is left.
RemoveRecords(m, keys, filePath) ==
    LET touched(k)  == k \in keys /\ k \in DOMAIN m
        filtered(k) == SelectSeq(m[k], LAMBDA r : r.filePath # filePath)
        kept        == {k \in DOMAIN m : ~touched(k) \/ Len(filtered(k)) > 0}
    IN  [k \in kept |-> IF touched(k) THEN filtered(k) ELSE m[k]]

\* CssClassIndex.removeDirectives
removeDirectives(ci, filePath) ==
    IF filePath \notin DOMAIN ci.fileDirectives THEN ci
    ELSE LET directives == ci.fileDirectives[filePath] IN
         [ci EXCEPT
            !.mixinIndex   = RemoveRecords(ci.mixinIndex,
                                 {m.name : m \in Range(directives.mixins)}, filePath),
            !.extendIndex  = RemoveRecords(ci.extendIndex,
                                 {e.targetClassName : e \in Range(directives.extends)},
                                 filePath),
            !.includeIndex = RemoveRecords(ci.includeIndex,
                                 {i.mixinName : i \in Range(directives.includes)},
                                 filePath),
            !.fileDirectives = [f \in (DOMAIN ci.fileDirectives) \ {filePath} |->
                                   ci.fileDirectives[f]]]

\* CssClassIndex.removeFile
removeFile(ci, filePath) ==
    LET removed ==
          IF filePath \in DOMAIN ci.fileIndex
          THEN [ci EXCEPT
                  !.index     = RemoveRecords(ci.index, ci.fileIndex[filePath], filePath),
                  !.fileIndex = [f \in (DOMAIN ci.fileIndex) \ {filePath} |->
                                    ci.fileIndex[f]]]
          ELSE ci
    IN  removeDirectives(removed, filePath)

\* existing.push(record); map.set(key, existing) for each record of a list,
\* keys[i] being the key of records[i]
RECURSIVE PushAll(_, _, _, _)
PushAll(m, records, keys, i) ==
    IF i > Len(records) THEN m
    ELSE PushAll(Put(m, keys[i], Append(Get(m, keys[i], <<>>), records[i])),
                 records, keys, i + 1)

\* CssClassIndex.indexDirectives
indexDirectives(ci, filePath, content) ==
    LET directives == parseScssDirectives(content, filePath) IN
    [ci EXCEPT
       !.fileDirectives = Put(ci.fileDirectives, filePath, directives),
       !.mixinIndex   = PushAll(ci.mixinIndex, directives.mixins,
                                [i \in DOMAIN directives.mixins |->
                                    directives.mixins[i].name], 1),
       !.extendIndex  = PushAll(ci.extendIndex, directives.extends,
                                [i \in DOMAIN directives.extends |->
                                    directives.extends[i].targetClassName], 1),
       !.includeIndex = PushAll(ci.includeIndex, directives.includes,
                                [i \in DOMAIN directives.includes |->
                                    directives.includes[i].mixinName], 1)]

\* indexFile, lines 217-238: a definition as it is inserted, redirected to its
\* original position when the source map resolves it.
Redirected(def, sourceMap) ==
    LET original == resolveOriginalPosition(sourceMap.map, def.line, def.column,
                                            sourceMap.mapFilePath)
    IN  IF sourceMap.map.found /\ original.found
        THEN [def EXCEPT !.filePath = original.originalFilePath,
                         !.line     = original.originalLine,
                         !.column   = original.originalColumn]
        ELSE def

\* indexFile, lines 217-224: the first definition at which
\* resolveOriginalPosition throws, 0 when it throws at none.
ThrowsAt(classes, sourceMap) ==
    LET thrown == { i \in DOMAIN classes :
                      sourceMap.map.found
                      /\ resolveOriginalPosition(sourceMap.map, classes[i].line,
                              classes[i].column, sourceMap.mapFilePath).threw }
    IN  IF thrown = {} THEN 0 ELSE CHOOSE i \in thrown : \A j \in thrown : i <= j

\* indexFile, lines 217-239: the synchronous tail after the last await.  An
\* exception leaves the loop: the definitions before it are inserted, the
\* directives are not indexed.
InsertFile(ci, filePath, fileContent, classes, sourceMap) ==
    LET k == ThrowsAt(classes, sourceMap) IN
    IF k = 0
    THEN indexDirectives(
            addDefinitions(ci, [i \in DOMAIN classes |->
                                   Redirected(classes[i], sourceMap)], 1),
            filePath, fileContent)
    ELSE addDefinitions(ci, [i \in 1..(k - 1) |-> Redirected(classes[i], sourceMap)], 1)

\* indexEmbeddedStyles, lines 249-256: the definitions of one block, shifted.
InsertBlock(ci, classes, lineOffset) ==
    addDefinitions(ci, [i \in DOMAIN classes |->
                          [classes[i] EXCEPT !.line = classes[i].line + lineOffset]], 1)

\* indexWorkspace, lines 128-133
clear == EmptyIndex

(***************************************************************************)
(* Tasks: the async calls in flight                                        *)
(***************************************************************************)
NoTask ==
    [op |-> "none", pc |-> "", filePath |-> "", content |-> "", viaTs |-> FALSE,
     classes |-> <<>>, blocks |-> <<>>, mutated |-> FALSE, owner |-> 0,
     files |-> <<>>, pending |-> {}, parsing |-> EmptyMap, results |-> EmptyMap,
     indexedPaths |-> {}, importQueue |-> <<>>, batch |-> <<>>, newFiles |-> <<>>,
     tplPending |-> {}, embedded |-> EmptyMap,
     cfgs |-> {}]     \* history: the values this.config had when indexWorkspace read it

TaskIds == 1..MaxTasks
Busy    == {t \in TaskIds : tasks[t].op # "none"}
Free    == {t \in TaskIds : tasks[t].op = "none"}
\* the record a new call is kept in
NewId   == CHOOSE t \in Free : \A u \in Free : t <= u

(***************************************************************************)
(* History: the last two calls made on the index, the maps before, between *)
(* and after them, and whether the second began before the first ended.    *)
(***************************************************************************)
NoCall == [op |-> "none", filePath |-> "", content |-> ""]
NoHist ==
    [c1 |-> NoCall, c2 |-> NoCall, t1 |-> 0, t2 |-> 0, d1 |-> FALSE, d2 |-> FALSE,
     ov |-> FALSE, s0 |-> EmptyIndex, s1 |-> EmptyIndex, s2 |-> EmptyIndex,
     e0 |-> {}, e1 |-> {}, cfg |-> DEFAULT_CONFIG]
Sync == -1    \* the task id of a synchronous call

HistStart(h, call, t) ==
    IF Busy = {} /\ h.c1.op # "none" /\ h.c2.op = "none" /\ h.d1 /\ h.cfg = config
    THEN \* the second call, begun after the first ended
         [h EXCEPT !.c2 = call, !.t2 = t, !.ov = FALSE]
    ELSE IF Busy = {} /\ h.c2.op # "none" /\ h.d1 /\ h.d2 /\ ~h.ov /\ h.cfg = config
    THEN \* a third call in a row: the window moves on by one call
         [h EXCEPT !.c1 = h.c2, !.c2 = call, !.t1 = 0, !.t2 = t, !.d2 = FALSE,
                   !.s0 = h.s1, !.s1 = h.s2, !.s2 = EmptyIndex,
                   !.e0 = h.e1, !.e1 = everIndexed]
    ELSE IF Busy = {} 
    THEN \* a first call
         [NoHist EXCEPT !.c1 = call, !.t1 = t, !.s0 = classIndex,
                        !.e0 = everIndexed, !.cfg = config]
    ELSE IF Busy = {h.t1} /\ h.c2.op = "none" /\ h.cfg = config
    THEN \* the second call, begun while the first is suspended
         [h EXCEPT !.c2 = call, !.t2 = t, !.ov = TRUE]
    ELSE \* three calls overlap: nothing is recorded
         NoHist

HistEnd(h, t, ciAfter, everAfter) ==
    IF t = h.t1
    THEN [h EXCEPT !.t1 = 0, !.d1 = TRUE,
                   !.s1 = IF h.c2.op = "none" THEN ciAfter ELSE h.s1,
                   !.e1 = IF h.c2.op = "none" THEN everAfter ELSE h.e1,
                   !.s2 = IF h.c2.op # "none" /\ h.d2 THEN ciAfter ELSE h.s2]
    ELSE IF t = h.t2
    THEN [h EXCEPT !.t2 = 0, !.d2 = TRUE,
                   !.s2 = IF h.d1 THEN ciAfter ELSE h.s2]
    ELSE h

\* A synchronous call: started and ended in one step.
HistSync(h, call, ciAfter) == HistEnd(HistStart(h, call, Sync), Sync, ciAfter, everIndexed)

(***************************************************************************)
(* server.ts: promises and their reactions                                 *)
(***************************************************************************)
CallIds == 1..MaxCalls
ReqIds  == 1..MaxReqs
NoSiw   == [pc |-> "idle", waiters |-> <<>>]
NoReq   == [pc |-> "idle", torn |-> FALSE]

Reaction(kind, id) == [kind |-> kind, id |-> id, threw |-> FALSE, ready |-> FALSE]

\* The promise p of safeIndexWorkspace call k settles: the reactions of its
\* awaiters are queued in the order they began to await it, the call's own
\* `await p` (line 100) first.
Settle(k, threw) ==
    /\ microtasks' = microtasks \o << [Reaction("owner", k) EXCEPT !.threw = threw] >>
                                \o siw[k].waiters
    /\ siw' = [siw EXCEPT ![k].waiters = <<>>]
    /\ UNCHANGED <<indexReady, indexingInProgress, reqs>>

\* An async index call returns (or throws): its record is freed, the history
\* notes the end of the call, and the caller awaiting it is resumed.
Finish(t, ciAfter, threw) ==
    /\ tasks' = [tasks EXCEPT ![t] = NoTask]
    /\ hist' = HistEnd(hist, t, ciAfter, everIndexed)
    /\ IF tasks[t].owner = 0 THEN UNCHANGED serverVars
       ELSE Settle(tasks[t].owner, threw)

\* An async index call runs to its next await.
Suspend(t, task, ciAfter) ==
    /\ tasks' = [tasks EXCEPT ![t] = [task EXCEPT !.mutated = @ \/ ciAfter # classIndex]]
    /\ UNCHANGED <<hist, serverVars>>

(***************************************************************************)
(* CssClassIndex.indexFile                                                 *)
(***************************************************************************)
\* lines 205-212: removeFile, then the first await
IndexFileCall(filePath, content) ==
    /\ microtasks = <<>>
    /\ ncalls < MaxOps
    /\ ncalls' = ncalls + 1
    /\ Free # {}
    /\ LET ci   == removeFile(classIndex, filePath)
           call == [op |-> "indexFile", filePath |-> filePath, content |-> content]
           h    == HistStart(hist, call, NewId)
           task == [NoTask EXCEPT !.op = "indexFile", !.filePath = filePath,
                                  !.content = content,
                                  !.mutated = ci # classIndex]
       IN  /\ classIndex' = ci
           /\ everIndexed' = everIndexed \cup {filePath}
           /\ IF content = Undefined
              THEN /\ tasks' = [tasks EXCEPT ![NewId] = [task EXCEPT !.pc = "read"]]
                   /\ hist' = h
              ELSE IF Falsy(content)
              THEN /\ tasks' = tasks
                   /\ hist' = HistEnd(h, NewId, ci, everIndexed \cup {filePath})
              ELSE /\ tasks' = [tasks EXCEPT ![NewId] =
                                  [task EXCEPT !.pc = "parse",
                                               !.viaTs = UsesTreeSitter(config, filePath, "")]]
                   /\ hist' = h
    /\ UNCHANGED <<config, disk, serverVars>>

\* lines 209-212: readFileContent resolves
IndexFileRead(t) ==
    /\ microtasks = <<>>
    /\ tasks[t].op = "indexFile" /\ tasks[t].pc = "read"
    /\ LET fileContent == readFileContent(disk, tasks[t].filePath) IN
       IF Falsy(fileContent)
       THEN Finish(t, classIndex, FALSE)
       ELSE Suspend(t, [tasks[t] EXCEPT !.pc = "parse", !.content = fileContent,
                          !.viaTs = UsesTreeSitter(config, tasks[t].filePath, "")],
                    classIndex)
    /\ UNCHANGED <<classIndex, config, disk, everIndexed, ncalls>>

\* lines 212-215: parseClasses resolves, findSourceMap is awaited
IndexFileParsed(t) ==
    /\ microtasks = <<>>
    /\ tasks[t].op = "indexFile" /\ tasks[t].pc = "parse"
    /\ \E tsOk \in {b \in BOOLEAN : tasks[t].viaTs \/ b} :
          Suspend(t, [tasks[t] EXCEPT !.pc = "map",
                        !.classes = parseClasses(tasks[t].content, tasks[t].filePath,
                                                 tasks[t].viaTs, tsOk)],
                  classIndex)
    /\ UNCHANGED <<classIndex, config, disk, everIndexed, ncalls>>

\* lines 215-239: findSourceMap resolves, the definitions are inserted
IndexFileMapped(t) ==
    /\ microtasks = <<>>
    /\ tasks[t].op = "indexFile" /\ tasks[t].pc = "map"
    /\ LET sourceMap == findSourceMap(tasks[t].filePath, tasks[t].content)
           ci == InsertFile(classIndex, tasks[t].filePath, tasks[t].content,
                            tasks[t].classes, sourceMap)
       IN  /\ classIndex' = ci
           /\ Finish(t, ci, ThrowsAt(tasks[t].classes, sourceMap) # 0)
    /\ UNCHANGED <<config, disk, everIndexed, ncalls>>

(***************************************************************************)
(* CssClassIndex.removeFile and updateConfig, called from outside          *)
(***************************************************************************)
RemoveFileCall(filePath) ==
    /\ microtasks = <<>>
    /\ ncalls < MaxOps
    /\ ncalls' = ncalls + 1
    /\ LET ci == removeFile(classIndex, filePath) IN
       /\ classIndex' = ci
       /\ hist' = HistSync(hist, [op |-> "removeFile", filePath |-> filePath,
                                  content |-> ""], ci)
    /\ UNCHANGED <<config, disk, tasks, everIndexed, serverVars>>

\* CssClassIndex.updateConfig
UpdateConfig(newConfig) ==
    /\ microtasks = <<>>
    /\ ncalls < MaxOps
    /\ ncalls' = ncalls + 1
    /\ newConfig # config
    /\ config' = newConfig
    /\ UNCHANGED <<classIndex, disk, tasks, hist, everIndexed, serverVars>>

(***************************************************************************)
(* CssClassIndex.indexEmbeddedStyles                                       *)
(***************************************************************************)
\* lines 246-248: the blocks are extracted, the first block's parse awaited
IndexEmbeddedStylesCall(filePath, content) ==
    /\ microtasks = <<>>
    /\ ncalls < MaxOps
    /\ ncalls' = ncalls + 1
    /\ Free # {}
    /\ LET blocks == extractStyleBlocks(content)
           call   == [op |-> "indexEmbeddedStyles", filePath |-> filePath,
                      content |-> content]
           h      == HistStart(hist, call, NewId)
       IN  IF blocks = <<>>
           THEN /\ tasks' = tasks
                /\ hist' = HistEnd(h, NewId, classIndex, everIndexed \cup {filePath})
           ELSE /\ tasks' = [tasks EXCEPT ![NewId] =
                               [NoTask EXCEPT !.op = "indexEmbeddedStyles", !.pc = "block",
                                  !.filePath = filePath, !.content = content,
                                  !.blocks = blocks,
                                  !.viaTs = UsesTreeSitter(config, filePath, blocks[1].lang)]]
                /\ hist' = h
    /\ everIndexed' = everIndexed \cup {filePath}
    /\ UNCHANGED <<classIndex, config, disk, serverVars>>

\* lines 248-256: one block's parse resolves, its definitions are inserted,
\* and the next block's parse is awaited
IndexEmbeddedStylesParsed(t) ==
    /\ microtasks = <<>>
    /\ tasks[t].op = "indexEmbeddedStyles" /\ tasks[t].pc = "block"
    /\ \E tsOk \in {b \in BOOLEAN : tasks[t].viaTs \/ b} :
         LET block == tasks[t].blocks[1]
             rest  == Tail(tasks[t].blocks)
             ci    == InsertBlock(classIndex,
                                  parseClasses(block.content, tasks[t].filePath,
                                               tasks[t].viaTs, tsOk),
                                  block.lineOffset)
         IN  /\ classIndex' = ci
             /\ IF rest = <<>>
                THEN Finish(t, ci, FALSE)
                ELSE Suspend(t, [tasks[t] EXCEPT !.blocks = rest,
                                   !.viaTs = UsesTreeSitter(config, tasks[t].filePath,
                                                            rest[1].lang)],
                             ci)
    /\ UNCHANGED <<config, disk, everIndexed, ncalls>>

(***************************************************************************)
(* CssClassIndex.indexWorkspace                                            *)
(***************************************************************************)
\* lines 148-156: the results of the scanned files are inserted in scan order
RECURSIVE MergeResults(_, _, _, _)
MergeResults(ci, files, results, i) ==
    IF i > Len(files) THEN ci
    ELSE LET r  == results[files[i]]
             c1 == addDefinitions(ci, r.classes, 1)
             c2 == IF Falsy(r.content) THEN c1
                   ELSE indexDirectives(c1, files[i], r.content)
         IN  MergeResults(c2, files, results, i + 1)

\* lines 152-155: the files with content, queued for import resolution
RECURSIVE QueueOf(_, _, _)
QueueOf(files, results, i) ==
    IF i > Len(files) THEN <<>>
    ELSE (IF Falsy(results[files[i]].content) THEN <<>>
          ELSE << [filePath |-> files[i], content |-> results[files[i]].content] >>)
         \o QueueOf(files, results, i + 1)

\* lines 161-170: the resolved imports of a batch that are not yet indexed
RECURSIVE NewFilesOf(_, _, _, _)
NewFilesOf(batch, indexedPaths, d, i) ==
    IF i > Len(batch) THEN <<>>
    ELSE SelectSeq(resolveFileImports(batch[i].content, d),
                   LAMBDA r : r # NoFile /\ r \notin indexedPaths)
         \o NewFilesOf(batch, indexedPaths, d, i + 1)

\* A slip of the loop over newFiles: the test `indexedPaths.has(newFile)` of
\* line 172 is left out, so every entry of newFiles is read.
AdvanceNoVisited(task, cfg) ==
    IF task.newFiles # <<>>
    THEN [task EXCEPT !.pc = "bfsRead", !.filePath = Head(task.newFiles),
                      !.newFiles = Tail(task.newFiles),
                      !.indexedPaths = task.indexedPaths \cup {Head(task.newFiles)}]
    ELSE IF task.importQueue # <<>>
    THEN [task EXCEPT !.pc = "imports", !.batch = task.importQueue, !.importQueue = <<>>,
                      !.filePath = "", !.content = ""]
    ELSE IF cfg.searchEmbeddedStyles
    THEN [task EXCEPT !.pc = "tplScan", !.filePath = "", !.content = "",
                      !.cfgs = @ \cup {cfg}]
    ELSE [task EXCEPT !.pc = "return", !.cfgs = @ \cup {cfg}]

\* lines 159-197: from the top of the for loop over newFiles to the next
\* await: the read of the next file not yet indexed (line 175), the import
\* resolution of the next batch (line 161), the template scan (line 189), or
\* the return when embedded styles are not searched.
RECURSIVE Advance(_, _)
Advance(task, cfg) ==
    IF task.newFiles # <<>>
    THEN IF Head(task.newFiles) \in task.indexedPaths
         THEN Advance([task EXCEPT !.newFiles = Tail(task.newFiles)], cfg)
         ELSE [task EXCEPT !.pc = "bfsRead", !.filePath = Head(task.newFiles),
                           !.newFiles = Tail(task.newFiles),
                           !.indexedPaths = task.indexedPaths \cup {Head(task.newFiles)}]
    ELSE IF task.importQueue # <<>>
    THEN [task EXCEPT !.pc = "imports", !.batch = task.importQueue, !.importQueue = <<>>,
                      !.filePath = "", !.content = ""]
    ELSE IF cfg.searchEmbeddedStyles
    THEN [task EXCEPT !.pc = "tplScan", !.filePath = "", !.content = "",
                      !.cfgs = @ \cup {cfg}]
    ELSE [task EXCEPT !.pc = "return", !.cfgs = @ \cup {cfg}]

\* The call goes on to its next await, or returns.
Continue(t, task, ciAfter) ==
    IF task.pc = "return" THEN Finish(t, ciAfter, FALSE) ELSE Suspend(t, task, ciAfter)

\* line 126: scanWorkspace is awaited
WorkspaceTask(owner) ==
    [NoTask EXCEPT !.op = "indexWorkspace", !.pc = "scan", !.owner = owner,
                   !.cfgs = {config}]

IndexWorkspaceCall ==
    /\ microtasks = <<>>
    /\ ncalls < MaxOps
    /\ ncalls' = ncalls + 1
    /\ Free # {}
    /\ tasks' = [tasks EXCEPT ![NewId] = WorkspaceTask(0)]
    /\ hist' = HistStart(hist, [op |-> "indexWorkspace", filePath |-> "", content |-> ""],
                         NewId)
    /\ everIndexed' = everIndexed \cup {p \in Paths : disk[p] # NoFile}
    /\ UNCHANGED <<classIndex, config, disk, serverVars>>

\* lines 126-143: the scan resolves (or rejects), the maps are cleared and
\* every scanned file is read
WsScanned(t) ==
    /\ microtasks = <<>>
    /\ tasks[t].op = "indexWorkspace" /\ tasks[t].pc = "scan"
    /\ \E rejected \in BOOLEAN :
         IF rejected
         THEN /\ classIndex' = classIndex
              /\ Finish(t, classIndex, TRUE)
         ELSE LET files == scanWorkspace(disk) IN
              /\ classIndex' = clear
              /\ Suspend(t, [tasks[t] EXCEPT !.pc = "readAll", !.files = files,
                                             !.pending = Range(files)], clear)
    /\ UNCHANGED <<config, disk, everIndexed, ncalls>>

\* lines 138-141: one file's read resolves and parseClasses is called
WsFileRead(t, f) ==
    /\ microtasks = <<>>
    /\ tasks[t].op = "indexWorkspace" /\ tasks[t].pc = "readAll"
    /\ f \in tasks[t].pending
    /\ LET content == readFileContent(disk, f)
           viaTs   == UsesTreeSitter(config, f, "")
           task    == [tasks[t] EXCEPT !.pending = @ \ {f}]
       IN  Suspend(t,
                   IF Falsy(content)
                   THEN [task EXCEPT !.results =
                           Put(@, f, [classes |-> <<>>, content |-> NoFile])]
                   ELSE IF viaTs
                   THEN [task EXCEPT !.parsing = Put(@, f, [content |-> content]),
                                     !.cfgs = @ \cup {config}]
                   ELSE [task EXCEPT !.results =
                           Put(@, f, [classes |-> parseCssClasses(content, f),
                                      content |-> content]),
                                     !.cfgs = @ \cup {config}],
                   classIndex)
    /\ UNCHANGED <<classIndex, config, disk, everIndexed, ncalls>>

\* lines 112-118, 140-141: the tree-sitter backend returns or throws
WsFileParsed(t, f) ==
    /\ microtasks = <<>>
    /\ tasks[t].op = "indexWorkspace" /\ tasks[t].pc = "readAll"
    /\ f \in DOMAIN tasks[t].parsing
    /\ \E tsOk \in BOOLEAN :
         LET content == tasks[t].parsing[f].content IN
         Suspend(t, [tasks[t] EXCEPT
                       !.parsing = [g \in (DOMAIN @) \ {f} |-> @[g]],
                       !.results = Put(@, f, [classes |-> parseClasses(content, f, TRUE, tsOk),
                                              content |-> content]),
                       !.cfgs = IF tsOk THEN @ ELSE @ \cup {config}],
                 classIndex)
    /\ UNCHANGED <<classIndex, config, disk, everIndexed, ncalls>>

\* lines 143-161: Promise.all resolves, the results are inserted, and the
\* import chains are followed
WsMerge(t) ==
    /\ microtasks = <<>>
    /\ tasks[t].op = "indexWorkspace" /\ tasks[t].pc = "readAll"
    /\ tasks[t].pending = {} /\ DOMAIN tasks[t].parsing = {}
    /\ LET ci   == MergeResults(classIndex, tasks[t].files, tasks[t].results, 1)
           task == [tasks[t] EXCEPT
                      !.indexedPaths = Range(tasks[t].files),
                      !.importQueue  = QueueOf(tasks[t].files, tasks[t].results, 1),
                      !.results = EmptyMap, !.files = <<>>]
       IN  /\ classIndex' = ci
           /\ Continue(t, Advance(task, config), ci)
    /\ UNCHANGED <<config, disk, everIndexed, ncalls>>

\* lines 161-175: the imports of the batch resolve
WsImports(t) ==
    /\ microtasks = <<>>
    /\ tasks[t].op = "indexWorkspace" /\ tasks[t].pc = "imports"
    /\ LET task == [tasks[t] EXCEPT
                      !.newFiles = NewFilesOf(tasks[t].batch, tasks[t].indexedPaths, disk, 1),
                      !.batch = <<>>]
       IN  Continue(t, Advance(task, config), classIndex)
    /\ UNCHANGED <<classIndex, config, disk, everIndexed, ncalls>>

\* lines 175-178: the read of an imported file resolves
WsBfsRead(t) ==
    /\ microtasks = <<>>
    /\ tasks[t].op = "indexWorkspace" /\ tasks[t].pc = "bfsRead"
    /\ LET content == readFileContent(disk, tasks[t].filePath) IN
       IF Falsy(content)
       THEN Continue(t, Advance(tasks[t], config), classIndex)
       ELSE Suspend(t, [tasks[t] EXCEPT !.pc = "bfsParse", !.content = content,
                          !.viaTs = UsesTreeSitter(config, tasks[t].filePath, ""),
                          !.cfgs = @ \cup {config}],
                    classIndex)
    /\ UNCHANGED <<classIndex, config, disk, everIndexed, ncalls>>

\* lines 178-184: the parse of an imported file resolves and it is inserted
WsBfsParsed(t) ==
    /\ microtasks = <<>>
    /\ tasks[t].op = "indexWorkspace" /\ tasks[t].pc = "bfsParse"
    /\ \E tsOk \in {b \in BOOLEAN : tasks[t].viaTs \/ b} :
         LET f    == tasks[t].filePath
             c    == tasks[t].content
             ci   == indexDirectives(
                        addDefinitions(classIndex,
                                       parseClasses(c, f, tasks[t].viaTs, tsOk), 1),
                        f, c)
             task == [tasks[t] EXCEPT
                        !.importQueue = Append(@, [filePath |-> f, content |-> c]),
                        !.cfgs = IF tasks[t].viaTs /\ ~tsOk THEN @ \cup {config} ELSE @]
         IN  /\ classIndex' = ci
             /\ Continue(t, Advance(task, config), ci)
    /\ UNCHANGED <<config, disk, everIndexed, ncalls>>

\* lines 189-196: the template scan resolves and every template is read
WsTplScanned(t) ==
    /\ microtasks = <<>>
    /\ tasks[t].op = "indexWorkspace" /\ tasks[t].pc = "tplScan"
    /\ Suspend(t, [tasks[t] EXCEPT !.pc = "tpl",
                                   !.tplPending = Range(scanTemplateFiles(disk))],
               classIndex)
    /\ UNCHANGED <<classIndex, config, disk, everIndexed, ncalls>>

\* lines 192-194, 246-248: a template's read resolves, indexEmbeddedStyles is
\* called and awaits the parse of its first block
WsTplRead(t, f) ==
    /\ microtasks = <<>>
    /\ tasks[t].op = "indexWorkspace" /\ tasks[t].pc = "tpl"
    /\ f \in tasks[t].tplPending
    /\ LET content == readFileContent(disk, f)
           blocks  == IF Falsy(content) THEN <<>> ELSE extractStyleBlocks(content)
           task    == [tasks[t] EXCEPT !.tplPending = @ \ {f}]
       IN  Suspend(t,
                   IF blocks = <<>> THEN task
                   ELSE [task EXCEPT !.embedded =
                           Put(@, f, [blocks |-> blocks,
                                      viaTs |-> UsesTreeSitter(config, f, blocks[1].lang)]),
                                     !.cfgs = @ \cup {config}],
                   classIndex)
    /\ UNCHANGED <<classIndex, config, disk, everIndexed, ncalls>>

\* lines 248-256 within line 194: one block of a template is inserted
WsTplBlock(t, f) ==
    /\ microtasks = <<>>
    /\ tasks[t].op = "indexWorkspace" /\ tasks[t].pc = "tpl"
    /\ f \in DOMAIN tasks[t].embedded
    /\ \E tsOk \in {b \in BOOLEAN : tasks[t].embedded[f].viaTs \/ b} :
         LET e     == tasks[t].embedded[f]
             block == e.blocks[1]
             rest  == Tail(e.blocks)
             ci    == InsertBlock(classIndex,
                                  parseClasses(block.content, f, e.viaTs, tsOk),
                                  block.lineOffset)
         IN  /\ classIndex' = ci
             /\ Suspend(t,
                        IF rest = <<>>
                        THEN [tasks[t] EXCEPT
                                !.embedded = [g \in (DOMAIN @) \ {f} |-> @[g]],
                                !.cfgs = IF e.viaTs /\ ~tsOk THEN @ \cup {config} ELSE @]
                        ELSE [tasks[t] EXCEPT !.embedded[f] =
                                [blocks |-> rest,
                                 viaTs  |-> UsesTreeSitter(config, f, rest[1].lang)],
                                              !.cfgs = @ \cup {config}],
                        ci)
    /\ UNCHANGED <<config, disk, everIndexed, ncalls>>

\* lines 190-198: Promise.all over the templates resolves and the call returns
WsTplDone(t) ==
    /\ microtasks = <<>>
    /\ tasks[t].op = "indexWorkspace" /\ tasks[t].pc = "tpl"
    /\ tasks[t].tplPending = {} /\ DOMAIN tasks[t].embedded = {}
    /\ Finish(t, classIndex, FALSE)
    /\ UNCHANGED <<classIndex, config, disk, everIndexed, ncalls>>

WorkspaceStep ==
    \E t \in TaskIds :
        \/ WsScanned(t)
        \/ \E f \in StylePaths : WsFileRead(t, f) \/ WsFileParsed(t, f)
        \/ WsMerge(t)
        \/ WsImports(t)
        \/ WsBfsRead(t)
        \/ WsBfsParsed(t)
        \/ WsTplScanned(t)
        \/ \E f \in TemplatePaths : WsTplRead(t, f) \/ WsTplBlock(t, f)
        \/ WsTplDone(t)

(***************************************************************************)
(* The index driven through its interface                                  *)
(***************************************************************************)
Init ==
    /\ classIndex = EmptyIndex
    /\ config = DEFAULT_CONFIG
    /\ disk \in Disks
    /\ tasks = [t \in TaskIds |-> NoTask]
    /\ hist = NoHist
    /\ everIndexed = {}
    /\ ncalls = 0
    /\ indexReady = FALSE
    /\ indexingInProgress = 0
    /\ siw = [k \in CallIds |-> NoSiw]
    /\ reqs = [r \in ReqIds |-> NoReq]
    /\ microtasks = <<>>

\* The calls made on indexFile: a path with the text of the saved document, or
\* with no content, to be read from the disk.
IndexFileArgs ==
    { <<"a.css", "btn">>, <<"a.css", "btn+map">>, <<"a.css", Undefined>>,
      <<"b.scss", "card">>, <<"b.scss", Undefined>> }

\* A configuration update changes one setting.
ConfigChanges ==
    { [config EXCEPT !.experimentalTreeSitter = ~@],
      [config EXCEPT !.searchEmbeddedStyles = ~@] }

Next ==
    \/ \E a \in IndexFileArgs : IndexFileCall(a[1], a[2])
    \/ \E t \in TaskIds : IndexFileRead(t)
    \/ \E t \in TaskIds : IndexFileParsed(t)
    \/ \E t \in TaskIds : IndexFileMapped(t)
    \/ \E p \in {"a.css", "b.scss", "t.vue"} : RemoveFileCall(p)
    \/ \E c \in ConfigChanges : UpdateConfig(c)
    \/ \E p \in TemplatePaths, c \in TemplateContents : IndexEmbeddedStylesCall(p, c)
    \/ \E t \in TaskIds : IndexEmbeddedStylesParsed(t)
    \/ IndexWorkspaceCall
    \/ WorkspaceStep

Spec == Init /\ [][Next]_vars

(***************************************************************************)
(* server.ts: safeIndexWorkspace, waitForIndex and their callers.  The     *)
(* workspace root is set.  A message handler runs when no promise reaction *)
(* is queued; queued reactions run first, in order.                        *)
(***************************************************************************)
ActiveCalls == {k \in CallIds : siw[k].pc # "idle"}
NewCall     == CHOOSE k \in CallIds \ ActiveCalls : \A j \in CallIds \ ActiveCalls : k <= j

\* An indexWorkspace execution that has cleared the maps and not yet returned.
Populating(t) == tasks[t].op = "indexWorkspace" /\ tasks[t].pc # "scan"

\* safeIndexWorkspace, lines 90-100: indexReady is reset, indexWorkspace is
\* called and runs to its first await, p is stored and awaited.
Begin(k, queue, calls) ==
    /\ Free # {}
    /\ indexReady' = FALSE
    /\ tasks' = [tasks EXCEPT ![NewId] = WorkspaceTask(k)]
    /\ indexingInProgress' = k
    /\ siw' = [calls EXCEPT ![k].pc = "awaitP"]
    /\ microtasks' = queue
    /\ UNCHANGED reqs

\* safeIndexWorkspace, lines 83-100, from its call
SafeIndexWorkspace(k) ==
    IF indexingInProgress # 0
    THEN /\ siw' = [siw EXCEPT ![k].pc = "awaitPrior",
                               ![indexingInProgress].waiters = Append(@, Reaction("siw", k))]
         /\ UNCHANGED <<indexReady, indexingInProgress, reqs, microtasks, tasks>>
    ELSE Begin(k, microtasks, siw)

\* onInitialized, lines 196-202: the initial indexing
OnInitialized ==
    /\ microtasks = <<>>
    /\ ncalls = 0
    /\ ncalls' = 1
    /\ SafeIndexWorkspace(NewCall)
    /\ UNCHANGED <<classIndex, config, disk, hist, everIndexed>>

\* onDidChangeConfiguration, lines 207-231: a changed configuration is stored
\* and the workspace is indexed again
OnDidChangeConfiguration(newConfig) ==
    /\ microtasks = <<>>
    /\ ncalls > 0 /\ ncalls < MaxCalls
    /\ ncalls' = ncalls + 1
    /\ CallIds \ ActiveCalls # {}
    /\ newConfig # config
    /\ config' = newConfig
    /\ SafeIndexWorkspace(NewCall)
    /\ UNCHANGED <<classIndex, disk, hist, everIndexed>>

\* A request handler calls waitForIndex (lines 70-76) and awaits its result.
RequestCall(r) ==
    /\ microtasks = <<>>
    /\ reqs[r].pc = "idle"
    /\ IF indexReady \/ indexingInProgress = 0
       THEN /\ reqs' = [reqs EXCEPT ![r].pc = "resolved"]
            /\ microtasks' = << [Reaction("serve", r) EXCEPT !.ready = indexReady] >>
            /\ UNCHANGED siw
       ELSE /\ reqs' = [reqs EXCEPT ![r].pc = "waiting"]
            /\ siw' = [siw EXCEPT ![indexingInProgress].waiters = Append(@, Reaction("req", r))]
            /\ UNCHANGED microtasks
    /\ UNCHANGED <<indexReady, indexingInProgress, indexVars>>

\* A slip of safeIndexWorkspace: the finally block does not reset
\* indexingInProgress.
OwnerResumesKeepsPromise(m) ==
    /\ indexReady' = TRUE
    /\ indexingInProgress' = indexingInProgress
    /\ siw' = [siw EXCEPT ![m.id] = NoSiw]
    /\ microtasks' = Tail(microtasks)
    /\ UNCHANGED <<reqs, tasks>>

\* safeIndexWorkspace, lines 100-117: `await p` returns or throws; either way
\* indexReady is set, and indexingInProgress is reset if it still holds p.
OwnerResumes(m) ==
    /\ indexReady' = TRUE
    /\ indexingInProgress' = IF indexingInProgress = m.id THEN 0 ELSE indexingInProgress
    /\ siw' = [siw EXCEPT ![m.id] = NoSiw]
    /\ microtasks' = Tail(microtasks)
    /\ UNCHANGED <<reqs, tasks>>

\* waitForIndex, lines 73-75: the awaited indexing has settled; the result is
\* handed to the handler, which resumes after the reactions already queued.
WaiterReturns(m) ==
    /\ reqs' = [reqs EXCEPT ![m.id].pc = "resolved"]
    /\ microtasks' = Tail(microtasks)
                     \o << [Reaction("serve", m.id) EXCEPT !.ready = indexReady] >>
    /\ UNCHANGED <<indexReady, indexingInProgress, siw, tasks>>

\* A request handler after `await waitForIndex()`: with true it reads the
\* index (torn notes a read during a rebuild), with false it answers null.
HandlerResumes(m) ==
    /\ reqs' = [reqs EXCEPT ![m.id] =
                  [pc |-> "idle",
                   torn |-> m.ready /\ \E t \in TaskIds : Populating(t)]]
    /\ microtasks' = Tail(microtasks)
    /\ UNCHANGED <<indexReady, indexingInProgress, siw, tasks>>

\* The next queued promise reaction runs.
RunMicrotask ==
    /\ microtasks # <<>>
    /\ LET m == Head(microtasks) IN
       CASE m.kind = "owner" -> OwnerResumes(m)
         [] m.kind = "siw"   -> Begin(m.id, Tail(microtasks), siw)
         [] m.kind = "req"   -> WaiterReturns(m)
         [] m.kind = "serve" -> HandlerResumes(m)
    /\ UNCHANGED <<classIndex, config, disk, hist, everIndexed, ncalls>>

NextServer ==
    \/ OnInitialized
    \/ \E c \in ConfigChanges : OnDidChangeConfiguration(c)
    \/ \E r \in ReqIds : RequestCall(r)
    \/ RunMicrotask
    \/ WorkspaceStep

SpecServer == Init /\ [][NextServer]_vars

(***************************************************************************)
(* Whole calls: what a call does to the maps when nothing else runs        *)
(* between its steps.                                                      *)
(***************************************************************************)
\* indexFile, lines 205-240, run from call to return
RunIndexFile(ci, filePath, content, cfg, d, tsOk) ==
    LET removed     == removeFile(ci, filePath)
        fileContent == IF content = Undefined THEN readFileContent(d, filePath)
                                              ELSE content
    IN  IF Falsy(fileContent) THEN removed
        ELSE InsertFile(removed, filePath, fileContent,
                        parseClasses(fileContent, filePath,
                                     UsesTreeSitter(cfg, filePath, ""), tsOk),
                        findSourceMap(filePath, fileContent))

\* indexEmbeddedStyles, lines 247-257: the loop over the blocks
RECURSIVE RunBlocks(_, _, _, _, _)
RunBlocks(ci, filePath, blocks, cfg, tsOk) ==
    IF blocks = <<>> THEN ci
    ELSE RunBlocks(InsertBlock(ci,
                               parseClasses(blocks[1].content, filePath,
                                            UsesTreeSitter(cfg, filePath, blocks[1].lang),
                                            tsOk),
                               blocks[1].lineOffset),
                   filePath, Tail(blocks), cfg, tsOk)

\* indexEmbeddedStyles, lines 245-258, run from call to return
RunIndexEmbeddedStyles(ci, filePath, content, cfg, tsOk) ==
    RunBlocks(ci, filePath, extractStyleBlocks(content), cfg, tsOk)

\* A recorded call of indexFile, removeFile or indexEmbeddedStyles, run whole.
RunCall(ci, call, cfg, d, tsOk) ==
    CASE call.op = "indexFile" ->
           RunIndexFile(ci, call.filePath, call.content, cfg, d, tsOk)
      [] call.op = "removeFile" -> removeFile(ci, call.filePath)
      [] call.op = "indexEmbeddedStyles" ->
           RunIndexEmbeddedStyles(ci, call.filePath, call.content, cfg, tsOk)
      [] OTHER -> ci

(***************************************************************************)
(* Properties of the class index                                           *)
(***************************************************************************)
ClassNames == {"btn", "card"}

\* how often definition def is stored in the name-to-definitions map of ci
Count(ci, def) ==
    Cardinality({i \in DOMAIN lookup(ci, def.className) :
                    lookup(ci, def.className)[i] = def})

AllDefs(ci) == UNION {Range(ci.index[n]) : n \in DOMAIN ci.index}

\* The last two calls were made one after the other and have both returned.
InSuccession == hist.c2.op # "none" /\ hist.d1 /\ hist.d2 /\ ~hist.ov
\* The last two calls have both returned, whether or not they overlapped.
BothReturned == hist.c2.op # "none" /\ hist.d1 /\ hist.d2

\* C1: indexFile(p, c) called twice in succession leaves lookup(n), for every
\* class name n, exactly as it was after the first call.
IndexFileIdempotent ==
    (InSuccession /\ hist.c1.op = "indexFile" /\ hist.c2 = hist.c1)
        => \A n \in ClassNames : lookup(hist.s2, n) = lookup(hist.s1, n)

\* the class names the content of an indexFile call contributes
Contributed(call) ==
    LET fileContent == IF call.content = Undefined
                       THEN readFileContent(disk, call.filePath) ELSE call.content
    IN  IF Falsy(fileContent) THEN {}
        ELSE {c.className : c \in Range(Sheet(fileContent).classes)}

\* C2: from a state in which p was never indexed, indexFile(p, c) followed by
\* removeFile(p) leaves lookup(n) as it was before, for every class name n
\* that c contributed.
IndexFileRemoveFileRoundTrip ==
    (/\ InSuccession
     /\ hist.c1.op = "indexFile" /\ hist.c1.filePath \notin hist.e0
     /\ hist.c2.op = "removeFile" /\ hist.c2.filePath = hist.c1.filePath)
        => \A n \in Contributed(hist.c1) : lookup(hist.s2, n) = lookup(hist.s0, n)

\* C3: indexing the same file with the same content a second time never leaves
\* a definition stored more often than one pass over that content produces
\* (beyond the copies stored before the two passes).
NoDuplicateAcrossPasses ==
    (/\ InSuccession
     /\ hist.c1.op \in {"indexFile", "indexEmbeddedStyles"} /\ hist.c2 = hist.c1)
        => \A def \in AllDefs(hist.s2) :
             \E tsOk \in BOOLEAN :
                Count(hist.s2, def)
                   <= Count(hist.s0, def)
                      + Count(RunCall(EmptyIndex, hist.c1, hist.cfg, disk, tsOk), def)

\* C4: a definition is stored under class name n exactly if n is in the
\* file-to-names entry of the definition's file: every definition has its
\* mirror entry and every mirror entry has a definition.
BidirectionalConsistency ==
    /\ \A n \in DOMAIN classIndex.index :
         \A def \in Range(classIndex.index[n]) :
            /\ def.filePath \in DOMAIN classIndex.fileIndex
            /\ n \in classIndex.fileIndex[def.filePath]
    /\ \A f \in DOMAIN classIndex.fileIndex :
         \A n \in classIndex.fileIndex[f] :
            /\ n \in DOMAIN classIndex.index
            /\ \E def \in Range(classIndex.index[n]) : def.filePath = f

\* An indexFile whose definitions a source map moved to another file, then a
\* removeFile, with definitions and mirror entries left in the maps.
MirrorAfterRemoval ==
    /\ InSuccession
    /\ hist.c1.op = "indexFile" /\ hist.c2.op = "removeFile"
    /\ hist.c2.filePath = hist.c1.filePath
    /\ hist.c1.filePath \notin DOMAIN classIndex.fileIndex
    /\ DOMAIN classIndex.fileIndex # {}
    /\ DOMAIN classIndex.index # {}

\* C10: every definition indexFile(p) inserted, redirected by a source map or
\* not, is gone from the lookups after removeFile(p).
InsertedDefinitionsRemoved ==
    (/\ InSuccession
     /\ hist.c1.op = "indexFile" /\ hist.c2.op = "removeFile"
     /\ hist.c2.filePath = hist.c1.filePath)
        => \A def \in AllDefs(hist.s1) :
              Count(hist.s2, def) <= Count(removeFile(hist.s0, hist.c1.filePath), def)

(***************************************************************************)
(* Properties of overlapping calls                                         *)
(***************************************************************************)
\* the maps left by running the recorded calls c then e whole, one after the other
InOrder(c, e, okC, okE) ==
    RunCall(RunCall(hist.s0, c, hist.cfg, disk, okC), e, hist.cfg, disk, okE)

\* C7: two indexFile calls that overlapped at their suspension points leave the
\* maps as running the two whole calls one after the other, in some order, does.
OverlapIsSerial ==
    (/\ BothReturned /\ hist.ov
     /\ hist.c1.op = "indexFile" /\ hist.c2.op = "indexFile")
        => \E ok1, ok2 \in BOOLEAN :
              \/ hist.s2 = InOrder(hist.c1, hist.c2, ok1, ok2)
              \/ hist.s2 = InOrder(hist.c2, hist.c1, ok2, ok1)

\* C8: a call of indexFile or indexWorkspace that has changed the maps and then
\* suspended changes them no more when it resumes: all of its insertions and
\* removals lie in one synchronous run.
MutationsInOneRun ==
    [][\A t \in TaskIds :
          (/\ tasks[t].op \in {"indexFile", "indexWorkspace"}
           /\ tasks[t].mutated
           /\ tasks'[t] # tasks[t])
             => classIndex' = classIndex]_vars

\* the sets of records each key of the maps holds
RecordSets(ci) ==
    [index        |-> [k \in DOMAIN ci.index |-> Range(ci.index[k])],
     mixinIndex   |-> [k \in DOMAIN ci.mixinIndex |-> Range(ci.mixinIndex[k])],
     extendIndex  |-> [k \in DOMAIN ci.extendIndex |-> Range(ci.extendIndex[k])],
     includeIndex |-> [k \in DOMAIN ci.includeIndex |-> Range(ci.includeIndex[k])]]

\* C9: indexFile/removeFile on a and indexFile/removeFile on another path b,
\* however interleaved, end with the sets of definitions and directive records
\* per key that running the two calls in either order ends with.
DistinctPathsCommute ==
    (/\ BothReturned
     /\ hist.c1.op \in {"indexFile", "removeFile"}
     /\ hist.c2.op \in {"indexFile", "removeFile"}
     /\ hist.c1.filePath # hist.c2.filePath)
        => \E ok1, ok2 \in BOOLEAN :
              /\ RecordSets(hist.s2) = RecordSets(InOrder(hist.c1, hist.c2, ok1, ok2))
              /\ RecordSets(hist.s2) = RecordSets(InOrder(hist.c2, hist.c1, ok2, ok1))

(***************************************************************************)
(* Properties of the server's indexing                                     *)
(***************************************************************************)
\* C5: at most one indexWorkspace execution is in flight at any time, however
\* many safeIndexWorkspace calls were made while a run was in progress.
OneIndexWorkspaceInFlight ==
    Cardinality({t \in TaskIds : tasks[t].op = "indexWorkspace"}) <= 1

\* C6: while indexReady is true no indexWorkspace execution is between clearing
\* the maps and returning, and no handler that waitForIndex answered true has
\* read the maps during a rebuild.
ReadyMeansRebuilt ==
    /\ indexReady => \A t \in TaskIds : ~Populating(t)
    /\ \A r \in ReqIds : ~reqs[r].torn

(***************************************************************************)
(* Calls on one stylesheet: indexFile with changing contents, and          *)
(* removeFile, one call more than Spec allows.                             *)
(***************************************************************************)
MaxFileOps == 3

OneFile == "b.scss"

\* the texts the file is saved with: one with directives, one without
OneFileContents == {"card", "btn", Undefined}

InitOneFile ==
    /\ classIndex = EmptyIndex
    /\ config = DEFAULT_CONFIG
    /\ disk \in Disks
    /\ tasks = [t \in TaskIds |-> NoTask]
    /\ hist = NoHist
    /\ everIndexed = {}
    /\ ncalls = MaxOps - MaxFileOps     \* MaxFileOps calls until ncalls = MaxOps
    /\ indexReady = FALSE
    /\ indexingInProgress = 0
    /\ siw = [k \in CallIds |-> NoSiw]
    /\ reqs = [r \in ReqIds |-> NoReq]
    /\ microtasks = <<>>

NextOneFile ==
    \/ \E c \in OneFileContents : IndexFileCall(OneFile, c)
    \/ \E t \in TaskIds : IndexFileRead(t)
    \/ \E t \in TaskIds : IndexFileParsed(t)
    \/ \E t \in TaskIds : IndexFileMapped(t)
    \/ RemoveFileCall(OneFile)

SpecOneFile == InitOneFile /\ [][NextOneFile]_vars

\* removeFile(p) was the last call made, was made with no call in flight, and
\* has returned.
RemovedLast(p) ==
    /\ Busy = {}
    /\ \/ hist.c2.op = "none" /\ hist.c1.op = "removeFile" /\ hist.c1.filePath = p /\ hist.d1
       \/ hist.c2.op = "removeFile" /\ hist.c2.filePath = p /\ hist.d2 /\ ~hist.ov

\* the directive records the three directive lookups can return
DirectiveRecords(ci) ==
    UNION ({Range(ci.mixinIndex[k]) : k \in DOMAIN ci.mixinIndex}
           \cup {Range(ci.extendIndex[k]) : k \in DOMAIN ci.extendIndex}
           \cup {Range(ci.includeIndex[k]) : k \in DOMAIN ci.includeIndex})

\* C11: once removeFile(p) has returned with no indexing in flight, lookupMixin,
\* lookupExtenders and lookupIncludes return no record whose filePath is p,
\* whatever calls on p came before.
DirectivesRemoved ==
    \A p \in Paths :
       RemovedLast(p) => \A r \in DirectiveRecords(classIndex) : r.filePath # p

(***************************************************************************)
(* One indexWorkspace pass over workspaces with arbitrary import edges     *)
(***************************************************************************)
\* the texts of the stylesheets: no import, or imports of p, q and b
ImportContents == {"btn", "@p", "@q", "@b", "@p@q"}

\* a.css and b.scss are scanned; _p.scss and _q.scss are reached by imports
\* only; there is no template.
ImportDisks ==
    { [p \in Paths \cup {"_q.scss"} |-> IF p \in TemplatePaths THEN NoFile ELSE f[p]] :
        f \in [StylePaths \cup {"_q.scss"} -> ImportContents \cup {NoFile}] }

InitImports ==
    /\ classIndex = EmptyIndex
    /\ config = DEFAULT_CONFIG
    /\ disk \in ImportDisks
    /\ tasks = [t \in TaskIds |-> NoTask]
    /\ hist = NoHist
    /\ everIndexed = {}
    /\ ncalls = MaxOps - 1              \* one call
    /\ indexReady = FALSE
    /\ indexingInProgress = 0
    /\ siw = [k \in CallIds |-> NoSiw]
    /\ reqs = [r \in ReqIds |-> NoReq]
    /\ microtasks = <<>>

\* One pass whose workspace scan resolves.
NextImports ==
    \/ IndexWorkspaceCall
    \/ \E t \in TaskIds : WsScanned(t) /\ tasks'[t].op # "none"
    \/ \E t \in TaskIds, f \in StylePaths : WsFileRead(t, f)
    \/ \E t \in TaskIds : WsMerge(t)
    \/ \E t \in TaskIds : WsImports(t)
    \/ \E t \in TaskIds : WsBfsRead(t)
    \/ \E t \in TaskIds : WsBfsParsed(t)
    \/ \E t \in TaskIds : WsTplScanned(t)
    \/ \E t \in TaskIds : WsTplDone(t)

\* Every resumption of the pass is an I/O completion, which arrives.
SpecImports == InitImports /\ [][NextImports]_vars /\ WF_vars(NextImports)

\* the files the imports of f resolve to
ImportsOf(f, d) ==
    LET content == readFileContent(d, f) IN
    IF Falsy(content) THEN {}
    ELSE {r \in Range(resolveFileImports(content, d)) : r # NoFile}

\* the files reachable from the files of S through resolved imports
RECURSIVE Reach(_, _)
Reach(S, d) ==
    LET T == S \cup UNION {ImportsOf(f, d) : f \in S}
    IN  IF T = S THEN S ELSE Reach(T, d)

ReachableFiles(d) == Reach(Range(scanWorkspace(d)), d)

PassReturned == hist.c1.op = "indexWorkspace" /\ hist.d1

\* When the pass has returned, every definition of every readable file
\* reachable from the scanned files is stored once, and nothing else is.
ReachableIndexedOnce ==
    PassReturned =>
       /\ \A f \in ReachableFiles(disk) :
             ~Falsy(readFileContent(disk, f)) =>
                \A def \in Range(parseCssClasses(readFileContent(disk, f), f)) :
                   Count(classIndex, def) = 1
       /\ \A def \in AllDefs(classIndex) : def.filePath \in ReachableFiles(disk)

\* C12: whatever the import edges (self-imports, cycles, a file imported by
\* several files of one batch), indexWorkspace returns, and it has then
\* inserted the definitions of every readable reachable file exactly once.
ImportsTerminateIndexedOnce == []ReachableIndexedOnce /\ <>PassReturned

\* A pass has returned on a workspace where a.css and b.scss both import p,
\* _p.scss and _q.scss import each other, and _q.scss imports itself.
DiamondAndCyclesIndexed ==
    /\ PassReturned
    /\ disk["a.css"] = "@p" /\ disk["b.scss"] = "@p@q"
    /\ disk["_p.scss"] = "@q" /\ disk["_q.scss"] = "@p@q"
    /\ Cardinality(AllDefs(classIndex)) = 4



(***************************************************************************)
(* The regex parser, character by character                                *)
(*                                                                         *)
(* A text is a sequence of one-character strings.  parseCssClasses is a    *)
(* task like the async calls, although it never suspends: its record holds *)
(* the function's locals, ScanChar is one pass of the inner loop and       *)
(* EndOfLine the code between two lines.  History fields: skipped, the     *)
(* positions passed over as comment or string text, and rules, what each   *)
(* rule was resolved to and what it emitted.                               *)
(***************************************************************************)
\* the string made of a sequence of characters
RECURSIVE Str(_)
Str(chars) == IF chars = <<>> THEN "" ELSE Head(chars) \o Str(Tail(chars))

IsSpace(ch) == ch \in {" ", "\t"}

trim(s) ==
    LET RECURSIVE TrimStart(_)
        TrimStart(x) == IF x # <<>> /\ IsSpace(Head(x)) THEN TrimStart(Tail(x)) ELSE x
        RECURSIVE TrimEnd(_)
        TrimEnd(x) ==
            IF x # <<>> /\ IsSpace(x[Len(x)]) THEN TrimEnd(SubSeq(x, 1, Len(x) - 1)) ELSE x
    IN  TrimEnd(TrimStart(s))

splitSelectors(selector) ==
    LET RECURSIVE SplitAt(_, _, _)
        SplitAt(i, current, depth) ==
            IF i > Len(selector)
            THEN IF trim(current) # <<>> THEN << current >> ELSE <<>>
            ELSE LET ch == selector[i]
                     d  == IF ch = "(" THEN depth + 1
                           ELSE IF ch = ")" THEN depth - 1 ELSE depth
                 IN  IF ch = "," /\ d = 0
                     THEN << current >> \o SplitAt(i + 1, <<>>, d)
                     ELSE SplitAt(i + 1, Append(current, ch), d)
    IN  SplitAt(1, <<>>, 0)

resolveSelectors(rawSelector, parentSelectors, resolveNesting) ==
    LET parts == splitSelectors(rawSelector)
        \* trimmed.replace(/&/g, parent)
        RECURSIVE ReplaceAmp(_, _)
        ReplaceAmp(trimmed, parent) ==
            IF trimmed = <<>> THEN <<>>
            ELSE (IF Head(trimmed) = "&" THEN parent ELSE << Head(trimmed) >>)
                 \o ReplaceAmp(Tail(trimmed), parent)
        RECURSIVE ResolveParts(_)
        ResolveParts(i) ==
            IF i > Len(parts) THEN <<>>
            ELSE LET trimmed == trim(parts[i])
                     here ==
                         IF trimmed = <<>> THEN <<>>
                         ELSE IF ~resolveNesting \/ Len(parentSelectors) = 0
                         THEN << trimmed >>
                         ELSE IF \E k \in 1..Len(trimmed) : trimmed[k] = "&"
                         THEN [k \in 1..Len(parentSelectors) |->
                                  ReplaceAmp(trimmed, parentSelectors[k])]
                         ELSE [k \in 1..Len(parentSelectors) |->
                                  parentSelectors[k] \o << " " >> \o trimmed]
                 IN  here \o ResolveParts(i + 1)
    IN  ResolveParts(1)

\* The matches of /\.(-?[_a-zA-Z][-\w]*)/g, on the characters in use: the
\* letters a, b and c, the underscore and the hyphen.
extractClassesFromSelector(selector) ==
    LET s == selector
        IsNameStart(ch) == ch \in {"a", "b", "c", "_"}
        IsNameChar(ch) == ch \in {"a", "b", "c", "_", "-"}
        RECURSIVE NameEnd(_)
        NameEnd(i) == IF i <= Len(s) /\ IsNameChar(s[i]) THEN NameEnd(i + 1) ELSE i
        RECURSIVE MatchFrom(_)
        MatchFrom(i) ==
            IF i > Len(s) THEN <<>>
            ELSE IF s[i] # "." THEN MatchFrom(i + 1)
            ELSE LET j == IF i + 1 <= Len(s) /\ s[i + 1] = "-" THEN i + 2 ELSE i + 1
                 IN  IF j <= Len(s) /\ IsNameStart(s[j])
                     THEN << Str(SubSeq(s, i + 1, NameEnd(j + 1) - 1)) >>
                          \o MatchFrom(NameEnd(j + 1))
                     ELSE MatchFrom(i + 1)
    IN  MatchFrom(1)

\* the classes of a list of selectors, in order
RECURSIVE ClassesOf(_)
ClassesOf(selectors) ==
    IF selectors = <<>> THEN <<>>
    ELSE extractClassesFromSelector(Head(selectors)) \o ClassesOf(Tail(selectors))

ParseTask(content, resolveNesting) ==
    LET \* content.split("\n"): the last line may be empty
        RECURSIVE SplitLines(_, _)
        SplitLines(rest, line) ==
            IF rest = <<>> THEN << line >>
            ELSE IF Head(rest) = "\n" THEN << line >> \o SplitLines(Tail(rest), <<>>)
            ELSE SplitLines(Tail(rest), Append(line, Head(rest)))
    IN
    [op |-> "parseCssClasses", pc |-> "scan", content |-> content,
     lines |-> SplitLines(content, <<>>), resolveNesting |-> resolveNesting,
     lineIdx |-> 0, col |-> 0,
     scopeStack |-> <<>>, selectorBuffer |-> <<>>,
     selectorStartLine |-> 0, selectorStartCol |-> 0,
     inComment |-> FALSE, inLineComment |-> FALSE, inString |-> "",
     classes |-> <<>>, skipped |-> {}, rules |-> <<>>]

\* The branch of ch === "{", with the selector start already tracked.
OpenBrace(p) ==
    LET rawSelector == trim(p.selectorBuffer)
        depth == Len(p.scopeStack)
        parentSelectors == IF depth > 0 THEN p.scopeStack[depth] ELSE <<>>
        resolvedSelectors ==
            resolveSelectors(rawSelector, parentSelectors, p.resolveNesting)
        parentClasses == Range(ClassesOf(parentSelectors))
        \* the loop over the extracted classes: parent classes and repeats are skipped
        RECURSIVE Surviving(_, _)
        Surviving(extracted, seen) ==
            IF extracted = <<>> THEN <<>>
            ELSE IF Head(extracted) \in parentClasses \cup seen
            THEN Surviving(Tail(extracted), seen)
            ELSE << Head(extracted) >>
                 \o Surviving(Tail(extracted), seen \cup {Head(extracted)})
        kept == Surviving(ClassesOf(resolvedSelectors), {})
    IN  IF rawSelector # <<>>
        THEN [p EXCEPT
                !.selectorBuffer = <<>>,
                !.classes = @ \o [i \in 1..Len(kept) |->
                    [className |-> kept[i],
                     line |-> p.selectorStartLine, column |-> p.selectorStartCol,
                     endLine |-> p.lineIdx, endColumn |-> p.col,
                     nested |-> depth > 0]],
                !.scopeStack = Append(@, resolvedSelectors),
                !.rules = Append(@, [depth |-> depth, parent |-> parentSelectors,
                                     resolved |-> resolvedSelectors, emitted |-> kept])]
        ELSE [p EXCEPT !.selectorBuffer = <<>>,
                       !.scopeStack = Append(@, parentSelectors)]

\* One pass of the loop over the columns of a line.
ScanStep(p) ==
    LET line == p.lines[p.lineIdx + 1]
        ch   == line[p.col + 1]
        next == IF p.col + 1 < Len(line) THEN line[p.col + 2] ELSE ""
        here == {<< p.lineIdx, p.col >>}
        step(q) == [q EXCEPT !.col = @ + 1]
    IN  IF p.inString # ""
        THEN step([p EXCEPT
                    !.inString = IF ch = p.inString /\ (p.col = 0 \/ line[p.col] # "\\")
                                 THEN "" ELSE @,
                    !.skipped = @ \cup here])
        ELSE IF p.inComment
        THEN IF ch = "*" /\ next = "/"
             THEN step([p EXCEPT !.inComment = FALSE, !.col = @ + 1,
                                 !.skipped = @ \cup here \cup {<< p.lineIdx, p.col + 1 >>}])
             ELSE step([p EXCEPT !.skipped = @ \cup here])
        ELSE IF p.inLineComment
        THEN step([p EXCEPT !.skipped = @ \cup here])
        ELSE IF ch = "/" /\ next = "*"
        THEN step([p EXCEPT !.inComment = TRUE, !.col = @ + 1,
                            !.skipped = @ \cup here \cup {<< p.lineIdx, p.col + 1 >>}])
        ELSE IF ch = "/" /\ next = "/"
        THEN step([p EXCEPT !.inLineComment = TRUE, !.skipped = @ \cup here])
        ELSE IF ch \in {"\"", "'"}
        THEN step([p EXCEPT !.inString = ch, !.skipped = @ \cup here])
        ELSE LET q == IF trim(p.selectorBuffer) = <<>>
                         /\ ch \notin {" ", "\t", "{", "}", ";"}
                      THEN [p EXCEPT !.selectorStartLine = p.lineIdx,
                                     !.selectorStartCol = p.col]
                      ELSE p
             IN  step(CASE ch = "{" -> OpenBrace(q)
                        [] ch = "}" ->
                             [q EXCEPT !.selectorBuffer = <<>>,
                                       !.scopeStack =
                                           IF Len(@) > 0 THEN SubSeq(@, 1, Len(@) - 1) ELSE @]
                        [] ch = ";" -> [q EXCEPT !.selectorBuffer = <<>>]
                        [] OTHER -> [q EXCEPT !.selectorBuffer = Append(@, ch)])

Scanning(t) == tasks[t].op = "parseCssClasses" /\ tasks[t].pc = "scan"

ScanChar(t) ==
    /\ Scanning(t)
    /\ tasks[t].lineIdx < Len(tasks[t].lines)
    /\ tasks[t].col < Len(tasks[t].lines[tasks[t].lineIdx + 1])
    /\ tasks' = [tasks EXCEPT ![t] = ScanStep(@)]
    /\ UNCHANGED <<classIndex, config, disk, hist, everIndexed, ncalls, serverVars>>

\* The end of a line: the implicit separator, then the next line.
EndOfLine(t) ==
    /\ Scanning(t)
    /\ tasks[t].lineIdx < Len(tasks[t].lines)
    /\ tasks[t].col >= Len(tasks[t].lines[tasks[t].lineIdx + 1])
    /\ tasks' = [tasks EXCEPT ![t] =
          [@ EXCEPT !.selectorBuffer =
                        IF Len(@) > 0 /\ ~tasks[t].inComment THEN Append(@, " ") ELSE @,
                    !.lineIdx = @ + 1, !.col = 0, !.inLineComment = FALSE]]
    /\ UNCHANGED <<classIndex, config, disk, hist, everIndexed, ncalls, serverVars>>

\* return classes
ParseReturn(t) ==
    /\ Scanning(t)
    /\ tasks[t].lineIdx >= Len(tasks[t].lines)
    /\ tasks' = [tasks EXCEPT ![t].pc = "done"]
    /\ UNCHANGED <<classIndex, config, disk, hist, everIndexed, ncalls, serverVars>>


(***************************************************************************)
(* The parser on bounded inputs                                            *)
(***************************************************************************)
\* the deepest nesting of rules in an input
MaxDepth == 4

\* the longest run of delimiter characters before a rule, and after its brace
MaxPre == 4

MaxPost == 2

\* Rules one inside the other, sel { \n sel { \n sel {} } }: the outermost
\* selector is a class, a list or a descendant selector, the nested ones append
\* to &, compound with it, or name a class next to it.
NestInputs ==
    LET TopSelectors ==
            { << ".", "a" >>, << ".", "a", ",", ".", "b" >>,
              << ".", "a", " ", ".", "b" >> }
        NestedSelectors ==
            { << "&", "_", "b" >>, << "&", "-", "c" >>, << "&", ".", "c" >>,
              << ".", "b" >>, << "&", ".", "a" >>, << ".", "a", " ", "&" >>,
              << "&", " ", ".", "c" >> }
        RECURSIVE NestText(_)
        NestText(selectors) ==
            IF Len(selectors) = 1 THEN Head(selectors) \o << "{", "}" >>
            ELSE Head(selectors) \o << " ", "{", "\n" >>
                 \o NestText(Tail(selectors)) \o << "}" >>
    IN  UNION { { NestText(<< top >> \o inner) :
                    top \in TopSelectors, inner \in [1..n -> NestedSelectors] } :
                n \in 0..(MaxDepth - 1) }

\* the characters that open, close and escape comments and strings
LexChars == {"\"", "'", "\\", "/", "*", "\n"}

\* A rule .a{ after and before runs of these characters.
LexText(pre, post) == pre \o << ".", "a", "{" >> \o post

InitParser ==
    /\ classIndex = EmptyIndex
    /\ config = DEFAULT_CONFIG
    /\ disk = CHOOSE d \in Disks : TRUE
    /\ \/ \E content \in NestInputs, scssNesting \in BOOLEAN :
             tasks = [t \in TaskIds |->
                         IF t = 1 THEN ParseTask(content, scssNesting) ELSE NoTask]
       \/ \E n \in 0..MaxPre, m \in 0..MaxPost :
             \E pre \in [1..n -> LexChars], post \in [1..m -> LexChars] :
                tasks = [t \in TaskIds |->
                            IF t = 1 THEN ParseTask(LexText(pre, post), TRUE) ELSE NoTask]
    /\ hist = NoHist
    /\ everIndexed = {}
    /\ ncalls = 0
    /\ indexReady = FALSE
    /\ indexingInProgress = 0
    /\ siw = [k \in CallIds |-> NoSiw]
    /\ reqs = [r \in ReqIds |-> NoReq]
    /\ microtasks = <<>>

NextParser ==
    \/ \E t \in TaskIds : ScanChar(t)
    \/ \E t \in TaskIds : EndOfLine(t)
    \/ \E t \in TaskIds : ParseReturn(t)

SpecParser == InitParser /\ [][NextParser]_vars

Returned(t) == tasks[t].op = "parseCssClasses" /\ tasks[t].pc = "done"

\* C13: when rules are nested with & to any depth, every class of a resolved
\* selector has exactly one definition, and no rule emits a class that the
\* resolved selectors of its parent scope already hold.
NestedClassesDefinedOnce ==
    \A t \in TaskIds :
        Returned(t) /\ tasks[t].content \in NestInputs /\ tasks[t].resolveNesting =>
            LET defs == tasks[t].classes
                rules == tasks[t].rules
                resolvedClasses ==
                    UNION { Range(ClassesOf(rules[i].resolved)) : i \in DOMAIN rules }
            IN  /\ \A c \in resolvedClasses :
                      Cardinality({ i \in DOMAIN defs : defs[i].className = c }) = 1
                /\ \A i \in DOMAIN rules :
                      Range(rules[i].emitted) \cap Range(ClassesOf(rules[i].parent)) = {}



\* The positions of a text that lie inside a comment or a string, delimiters
\* included, by the lexical rules: /* to the next */, // to the end of its line,
\* a quote to the next quote of its kind that no backslash escapes, a backslash
\* inside a string escaping the one character after it; what is not terminated
\* runs to the end of the text.
InsideCommentOrString(lines) ==
    LET RECURSIVE Lex(_, _, _)
        Lex(l, c, mode) ==
            IF l >= Len(lines) THEN {}
            ELSE IF c >= Len(lines[l + 1])
            THEN Lex(l + 1, 0, IF mode = "//" THEN "" ELSE mode)
            ELSE LET line == lines[l + 1]
                     ch   == line[c + 1]
                     next == IF c + 1 < Len(line) THEN line[c + 2] ELSE ""
                     one  == {<< l, c >>}
                     two  == {<< l, c >>, << l, c + 1 >>}
                 IN  CASE mode = "" /\ ch = "/" /\ next = "*" -> two \cup Lex(l, c + 2, "/*")
                       [] mode = "" /\ ch = "/" /\ next = "/" -> two \cup Lex(l, c + 2, "//")
                       [] mode = "" /\ ch \in {"\"", "'"}     -> one \cup Lex(l, c + 1, ch)
                       [] mode = "" /\ ~(ch = "/" /\ next \in {"*", "/"})
                                    /\ ch \notin {"\"", "'"}  -> Lex(l, c + 1, "")
                       [] mode = "/*" /\ ch = "*" /\ next = "/" -> two \cup Lex(l, c + 2, "")
                       [] mode = "/*" /\ ~(ch = "*" /\ next = "/") -> one \cup Lex(l, c + 1, mode)
                       [] mode = "//" -> one \cup Lex(l, c + 1, mode)
                       [] mode \in {"\"", "'"} /\ ch = "\\" /\ next # "" ->
                              two \cup Lex(l, c + 2, mode)
                       [] mode \in {"\"", "'"} /\ ch = "\\" /\ next = "" ->
                              one \cup Lex(l, c + 1, mode)
                       [] mode \in {"\"", "'"} /\ ch = mode -> one \cup Lex(l, c + 1, "")
                       [] mode \in {"\"", "'"} /\ ch \notin {"\\", mode} ->
                              one \cup Lex(l, c + 1, mode)
    IN  Lex(0, 0, "")

\* C14: parseCssClasses returns for every input; no definition it returns starts
\* or has its brace inside a comment or a string, terminated or not, and it
\* passes over no text outside them: what follows the true end of a comment or
\* of a string is scanned.
CommentsAndStringsSkipped ==
    \A t \in TaskIds :
        Returned(t) =>
            LET inside == InsideCommentOrString(tasks[t].lines)
                defs == tasks[t].classes
            IN  /\ \A i \in DOMAIN defs :
                      /\ << defs[i].line, defs[i].column >> \notin inside
                      /\ << defs[i].endLine, defs[i].endColumn >> \notin inside
                /\ tasks[t].skipped \subseteq inside



(***************************************************************************)
(* indexFile on a file with a source map                                   *)
(***************************************************************************)
\* the longest mappings string
MaxMappings == 5

\* VLQ digits for 0, 1, -1 and 2, a digit with the continuation bit, the
\* two separators and a character that is no VLQ digit
MappingChars == {"A", "C", "D", "E", "g", ",", ";", "!"}

\* a.css holds the two-rule text with an inline map, for every mappings string
InitSourceMap ==
    /\ classIndex = EmptyIndex
    /\ config = DEFAULT_CONFIG
    /\ \E n \in 0..MaxMappings : \E m \in [1..n -> MappingChars] :
          disk = [p \in Paths |-> IF p = "a.css" THEN "map:" \o Str(m) ELSE NoFile]
    /\ tasks = [t \in TaskIds |-> NoTask]
    /\ hist = NoHist
    /\ everIndexed = {}
    /\ ncalls = MaxOps - 1              \* one call
    /\ indexReady = FALSE
    /\ indexingInProgress = 0
    /\ siw = [k \in CallIds |-> NoSiw]
    /\ reqs = [r \in ReqIds |-> NoReq]
    /\ microtasks = <<>>

NextSourceMap ==
    \/ IndexFileCall("a.css", Undefined)
    \/ \E t \in TaskIds : IndexFileRead(t)
    \/ \E t \in TaskIds : IndexFileParsed(t)
    \/ \E t \in TaskIds : IndexFileMapped(t)

SpecSourceMap == InitSourceMap /\ [][NextSourceMap]_vars

\* C15: the step that ends indexFile on a file with a discoverable V3 source
\* map is a return, not an exception, whatever the mappings string is, and
\* after it every definition that the map does not resolve is stored at its
\* generated position.
MappedIndexFileCompletes ==
    [][ \A t \in TaskIds :
          tasks[t].op = "indexFile" /\ tasks[t].pc = "map" /\ tasks'[t].op = "none"
          /\ findSourceMap(tasks[t].filePath, tasks[t].content).map.found
          => LET sourceMap == findSourceMap(tasks[t].filePath, tasks[t].content)
                 classes == tasks[t].classes
             IN  /\ ThrowsAt(classes, sourceMap) = 0
                 /\ \A i \in DOMAIN classes :
                       ~resolveOriginalPosition(sourceMap.map, classes[i].line,
                            classes[i].column, sourceMap.mapFilePath).found
                       => Count(classIndex', classes[i]) = 1 ]_vars



(***************************************************************************)
(* CssClassIndex.parseClasses on its own                                   *)
(*                                                                         *)
(* The call is a task: invoked notes that the tree-sitter backend was      *)
(* called, threw that it threw, rejected that the promise of parseClasses  *)
(* rejected.                                                               *)
(***************************************************************************)
\* one call, for every configuration, text of the table, path and hint
InitParseClasses ==
    /\ classIndex = EmptyIndex
    /\ config \in Configs
    /\ disk = [p \in Paths |-> NoFile]
    /\ \E content \in DOMAIN Stylesheets,
          filePath \in {"a.css", "b.scss", "t.vue", "c.sass"},
          langHint \in {"", "css", "scss", "sass", "less"} :
          tasks = [t \in TaskIds |->
                      IF t = 1
                      THEN [op |-> "parseClasses", pc |-> "call", content |-> content,
                            filePath |-> filePath, langHint |-> langHint,
                            result |-> <<>>, invoked |-> FALSE, threw |-> FALSE,
                            rejected |-> FALSE]
                      ELSE NoTask]
    /\ hist = NoHist
    /\ everIndexed = {}
    /\ ncalls = 0
    /\ indexReady = FALSE
    /\ indexingInProgress = 0
    /\ siw = [k \in CallIds |-> NoSiw]
    /\ reqs = [r \in ReqIds |-> NoReq]
    /\ microtasks = <<>>

\* lines 110-118: up to the await of the backend, or the regex parser at once
ParseClassesCall(t) ==
    /\ tasks[t].op = "parseClasses" /\ tasks[t].pc = "call"
    /\ tasks' = [tasks EXCEPT ![t] =
          IF UsesTreeSitter(config, @.filePath, @.langHint)
          THEN [@ EXCEPT !.pc = "ts", !.invoked = TRUE]
          ELSE [@ EXCEPT !.pc = "done",
                         !.result = parseClasses(tasks[t].content, tasks[t].filePath,
                                           FALSE, FALSE)]]
    /\ UNCHANGED <<classIndex, config, disk, hist, everIndexed, ncalls, serverVars>>

\* line 113: the backend's promise resolves
TreeSitterReturns(t) ==
    /\ tasks[t].op = "parseClasses" /\ tasks[t].pc = "ts"
    /\ tasks' = [tasks EXCEPT ![t] =
          [@ EXCEPT !.pc = "done",
                    !.result = parseClasses(tasks[t].content, tasks[t].filePath,
                                           TRUE, TRUE)]]
    /\ UNCHANGED <<classIndex, config, disk, hist, everIndexed, ncalls, serverVars>>

\* lines 114-118: the backend's promise rejects, the catch falls through
TreeSitterThrows(t) ==
    /\ tasks[t].op = "parseClasses" /\ tasks[t].pc = "ts"
    /\ tasks' = [tasks EXCEPT ![t] =
          [@ EXCEPT !.pc = "done", !.threw = TRUE,
                    !.result = parseClasses(tasks[t].content, tasks[t].filePath,
                                           TRUE, FALSE)]]
    /\ UNCHANGED <<classIndex, config, disk, hist, everIndexed, ncalls, serverVars>>

NextParseClasses ==
    \/ \E t \in TaskIds : ParseClassesCall(t)
    \/ \E t \in TaskIds : TreeSitterReturns(t)
    \/ \E t \in TaskIds : TreeSitterThrows(t)

SpecParseClasses == InitParseClasses /\ [][NextParseClasses]_vars

\* C16: a parseClasses call whose backend threw, or made with tree-sitter
\* disabled, or on SCSS (a path ending in .scss, or the hint scss or sass),
\* resolves to the output of the regex parser and does not reject; on SCSS the
\* backend is not called, before or after the call has finished.
RegexParserFallback ==
    \A t \in TaskIds :
        tasks[t].op = "parseClasses" =>
            LET p == tasks[t].filePath
                scss == \/ tasks[t].langHint \in {"scss", "sass"}
                        \/ Len(p) >= 5 /\ SubSeq(p, Len(p) - 4, Len(p)) = ".scss"
            IN  /\ scss => ~tasks[t].invoked
                /\ tasks[t].pc = "done"
                   /\ (tasks[t].threw \/ ~config.experimentalTreeSitter \/ scss)
                   => /\ tasks[t].result = parseCssClasses(tasks[t].content, p)
                      /\ ~tasks[t].rejected

\* the backend threw on a stylesheet with a class, and the call returned what
\* the regex parser finds, which is not what the backend would have returned
FellBackAfterThrow ==
    \E t \in TaskIds :
        /\ tasks[t].op = "parseClasses" /\ tasks[t].pc = "done" /\ tasks[t].threw
        /\ tasks[t].filePath = "a.css" /\ tasks[t].content = "btn"
        /\ tasks[t].result = parseCssClasses("btn", "a.css")
        /\ tasks[t].result # tsParseCssClasses("btn", "a.css")



\* C17: an indexWorkspace pass reads one configuration from its call to its
\* return, so that its files are scanned and parsed under one snapshot (one
\* parser backend, one searchEmbeddedStyles decision) even when updateConfig
\* is called while it is suspended; and updateConfig changes no stored
\* definition.
OneConfigurationSnapshot ==
    [][ /\ \A t \in TaskIds :
              tasks'[t].op = "indexWorkspace" => Cardinality(tasks'[t].cfgs) <= 1
        /\ config' # config => classIndex' = classIndex ]_vars



\* the records of a list that do not belong to a file, in their order
OthersIn(records, filePath) == SelectSeq(records, LAMBDA r : r.filePath # filePath)

\* C18: a removeFile(p) call leaves every definition and every directive record
\* of the other files where it is, in the same order in its list, and leaves
\* their mirror entries alone; when no indexing call was ever made for p it
\* leaves the whole index as it is (the model's removeFile has no error exit).
RemoveFileTouchesOnlyItsFile ==
    [][ \A p \in Paths :
          RemoveFileCall(p) =>
            /\ \A m \in {"index", "mixinIndex", "extendIndex", "includeIndex"} :
                  \A k \in DOMAIN classIndex[m] \cup DOMAIN classIndex'[m] :
                     OthersIn(Get(classIndex[m], k, <<>>), p)
                       = OthersIn(Get(classIndex'[m], k, <<>>), p)
            /\ \A m \in {"fileIndex", "fileDirectives"} :
                  \A f \in (DOMAIN classIndex[m] \cup DOMAIN classIndex'[m]) \ {p} :
                     /\ f \in DOMAIN classIndex[m] \cap DOMAIN classIndex'[m]
                     /\ classIndex[m][f] = classIndex'[m][f]
            /\ p \notin everIndexed => classIndex' = classIndex ]_vars



\* ---------------------------------------------------------------------------
\* BEM decomposition (src/src/utils/bem.ts); null parts are written ""
\* (parseBem never returns an empty element or modifier: `element || null`)
\* ---------------------------------------------------------------------------

\* String.prototype.indexOf: the index of the first occurrence, -1 when none
indexOf(str, search) ==
    LET at == {i \in 0..(Len(str) - Len(search)) :
                  SubSeq(str, i + 1, i + Len(search)) = search}
    IN  IF at = {} THEN -1 ELSE CHOOSE i \in at : \A j \in at : i <= j

NullBem == [null |-> TRUE, block |-> "", element |-> "", modifier |-> ""]

\* parseBem without the plain-block return of lines 23-26: a name with no
\* separator reaches the modifier branch with modIdx = -1, where slice(0, -1)
\* drops the last character
parseBemNoPlainBlock(className, elementSep, modifierSep) ==
    LET startsWith(str, prefix) ==
            Len(str) >= Len(prefix) /\ SubSeq(str, 1, Len(prefix)) = prefix
        slice(str, from) == SubSeq(str, from + 1, Len(str))
        elemIdx == indexOf(className, elementSep)
        modIdx == indexOf(className, modifierSep)
        rest == slice(className, elemIdx + Len(elementSep))
        restModIdx == indexOf(rest, modifierSep)
        parts ==
            IF elemIdx # -1 /\ (modIdx = -1 \/ elemIdx < modIdx)
            THEN [null |-> FALSE,
                  block |-> SubSeq(className, 1, elemIdx),
                  element |-> IF restModIdx # -1 THEN SubSeq(rest, 1, restModIdx)
                              ELSE rest,
                  modifier |-> IF restModIdx # -1
                               THEN slice(rest, restModIdx + Len(modifierSep))
                               ELSE ""]
            ELSE [null |-> FALSE,
                  block |-> SubSeq(className, 1,
                                   IF modIdx = -1 THEN Len(className) - 1 ELSE modIdx),
                  element |-> "",
                  modifier |-> IF modIdx + Len(modifierSep) < 0 THEN className
                               ELSE slice(className, modIdx + Len(modifierSep))]
    IN  IF className = "" \/ startsWith(className, elementSep)
           \/ startsWith(className, modifierSep)
        THEN NullBem
        ELSE IF parts.block = "" THEN NullBem ELSE parts

parseBem(className, elementSep, modifierSep) ==
    LET startsWith(str, prefix) ==
            Len(str) >= Len(prefix) /\ SubSeq(str, 1, Len(prefix)) = prefix
        slice(str, from) == SubSeq(str, from + 1, Len(str))
        elemIdx == indexOf(className, elementSep)
        modIdx == indexOf(className, modifierSep)
        rest == slice(className, elemIdx + Len(elementSep))
        restModIdx == indexOf(rest, modifierSep)
        parts ==
            IF elemIdx # -1 /\ (modIdx = -1 \/ elemIdx < modIdx)
            THEN [null |-> FALSE,
                  block |-> SubSeq(className, 1, elemIdx),
                  element |-> IF restModIdx # -1 THEN SubSeq(rest, 1, restModIdx)
                              ELSE rest,
                  modifier |-> IF restModIdx # -1
                               THEN slice(rest, restModIdx + Len(modifierSep))
                               ELSE ""]
            ELSE [null |-> FALSE,
                  block |-> SubSeq(className, 1, modIdx),
                  element |-> "",
                  modifier |-> slice(className, modIdx + Len(modifierSep))]
    IN  IF className = "" \/ startsWith(className, elementSep)
           \/ startsWith(className, modifierSep)
        THEN NullBem
        ELSE IF elemIdx = -1 /\ modIdx = -1
        THEN [null |-> FALSE, block |-> className, element |-> "", modifier |-> ""]
        ELSE IF parts.block = "" THEN NullBem ELSE parts

\* bemTargetAtOffset with the block test written `offset <= blockEnd`
bemTargetAtOffsetInclusive(className, offset, elementSep, modifierSep) ==
    LET parts == parseBem(className, elementSep, modifierSep)
        blockEnd == Len(parts.block)
        elementEnd == IF parts.element # ""
                      THEN blockEnd + Len(elementSep) + Len(parts.element)
                      ELSE blockEnd
    IN  IF parts.null THEN className
        ELSE IF parts.element = "" /\ parts.modifier = "" THEN className
        ELSE IF offset <= blockEnd THEN parts.block
        ELSE IF parts.element # "" /\ offset < elementEnd
        THEN parts.block \o elementSep \o parts.element
        ELSE className

bemTargetAtOffset(className, offset, elementSep, modifierSep) ==
    LET parts == parseBem(className, elementSep, modifierSep)
        blockEnd == Len(parts.block)
        elementEnd == IF parts.element # ""
                      THEN blockEnd + Len(elementSep) + Len(parts.element)
                      ELSE blockEnd
    IN  IF parts.null THEN className
        ELSE IF parts.element = "" /\ parts.modifier = "" THEN className
        ELSE IF offset < blockEnd THEN parts.block
        ELSE IF parts.element # "" /\ offset < elementEnd
        THEN parts.block \o elementSep \o parts.element
        ELSE className

\* one bemTargetAtOffset call on the class name b [elementSep e] [modifierSep m];
\* a part drawn as "" is absent together with its separator
InitBem ==
    /\ classIndex = EmptyIndex
    /\ config \in Configs
    /\ disk = [p \in Paths |-> NoFile]
    /\ \E b \in {"a", "bc", "a-b", "a_", "-c", "b-"},
          e \in {"", "a", "bc", "a-b", "a_", "-c", "b-"},
          m \in {"", "a", "bc", "a-b", "a_", "-c", "b-"},
          seps \in {<<"__", "--">>, <<"-", "_">>, <<"-", "--">>} :
          LET className == b \o (IF e = "" THEN "" ELSE seps[1] \o e)
                             \o (IF m = "" THEN "" ELSE seps[2] \o m)
          IN  \E offset \in 0..Len(className) :
                tasks = [t \in TaskIds |->
                      IF t = 1
                      THEN [op |-> "bemTargetAtOffset", pc |-> "call",
                            b |-> b, e |-> e, m |-> m,
                            className |-> className, offset |-> offset,
                            elementSep |-> seps[1], modifierSep |-> seps[2],
                            result |-> ""]
                      ELSE NoTask]
    /\ hist = NoHist
    /\ everIndexed = {}
    /\ ncalls = 0
    /\ indexReady = FALSE
    /\ indexingInProgress = 0
    /\ siw = [k \in CallIds |-> NoSiw]
    /\ reqs = [r \in ReqIds |-> NoReq]
    /\ microtasks = <<>>

BemTargetReturn(t) ==
    /\ tasks[t].op = "bemTargetAtOffset" /\ tasks[t].pc = "call"
    /\ tasks' = [tasks EXCEPT ![t] =
          [@ EXCEPT !.pc = "done",
                    !.result = bemTargetAtOffset(tasks[t].className, tasks[t].offset,
                                   tasks[t].elementSep, tasks[t].modifierSep)]]
    /\ UNCHANGED <<classIndex, config, disk, hist, everIndexed, ncalls, serverVars>>

NextBem == \E t \in TaskIds : BemTargetReturn(t)

SpecBem == InitBem /\ [][NextBem]_vars

\* C19: when a class name decomposes (section 4.1: first occurrences) into
\* block b, element e and modifier m, bemTargetAtOffset returns b for an offset
\* in [0, len(b)), b+elementSep+e for an offset from len(b) up to but excluding
\* len(b)+len(elementSep)+len(e), and the whole class name for a later offset.
BemTargetBoundaryExact ==
    \A t \in TaskIds :
        tasks[t].op = "bemTargetAtOffset" /\ tasks[t].pc = "done" =>
            LET c == tasks[t]
                elementEnd == Len(c.b) + Len(c.elementSep) + Len(c.e)
            IN  /\ c.e # "" /\ c.m # ""
                /\ parseBem(c.className, c.elementSep, c.modifierSep)
                     = [null |-> FALSE, block |-> c.b, element |-> c.e,
                        modifier |-> c.m]
                => c.result = IF c.offset < Len(c.b) THEN c.b
                              ELSE IF c.offset < elementEnd
                              THEN c.b \o c.elementSep \o c.e
                              ELSE c.className

\* the call returned the block-and-element name for the offset of the first
\* character of the element separator, on a hyphenated name
OnElementSeparator ==
    \E t \in TaskIds :
        /\ tasks[t].op = "bemTargetAtOffset" /\ tasks[t].pc = "done"
        /\ tasks[t].className = "a-b__bc--a" /\ tasks[t].offset = 3
        /\ tasks[t].elementSep = "__"
        /\ tasks[t].result = "a-b__bc"



\* ---------------------------------------------------------------------------
\* resolveImportPath, one candidate read per step (import-resolver.ts 70-90)
\* ---------------------------------------------------------------------------

\* at most this many of the candidate paths exist on the disk
MaxExisting == 3

\* one resolveImportPath call; every candidate of the stems p and d/p either
\* is missing or is an (empty) file
InitResolve ==
    LET stems == {"p", "d/p"}
        forms == {<<"", ".scss">>, <<"", ".css">>, <<"_", ".scss">>, <<"_", ".css">>,
                  <<"", "/_index.scss">>, <<"", "/index.scss">>,
                  <<"", "/_index.css">>, <<"", "/index.css">>}
        files == {dirname(s) \o f[1] \o basename(s) \o f[2] : s \in stems, f \in forms}
    IN
    /\ classIndex = EmptyIndex
    /\ config \in Configs
    /\ \E existing \in SUBSET files :
          /\ Cardinality(existing) <= MaxExisting
          /\ disk = [p \in files |-> IF p \in existing THEN "" ELSE NoFile]
    /\ \E specifier \in {"p", "p.scss", "p.css", "d/p", "d/p.scss",
                         "http://p", "https://p.css", "//p"} :
          tasks = [t \in TaskIds |->
                      IF t = 1
                      THEN [op |-> "resolveImportPath", pc |-> "call",
                            specifier |-> specifier, candidates |-> <<>>, i |-> 0,
                            result |-> NoFile]
                      ELSE NoTask]
    /\ hist = NoHist
    /\ everIndexed = {}
    /\ ncalls = 0
    /\ indexReady = FALSE
    /\ indexingInProgress = 0
    /\ siw = [k \in CallIds |-> NoSiw]
    /\ reqs = [r \in ReqIds |-> NoReq]
    /\ microtasks = <<>>

\* lines 74-81: the URL test, the candidate list, up to the first read
ResolveCall(t) ==
    /\ tasks[t].op = "resolveImportPath" /\ tasks[t].pc = "call"
    /\ tasks' = [tasks EXCEPT ![t] =
          IF IsUrl(@.specifier) THEN [@ EXCEPT !.pc = "done", !.result = NoFile]
          ELSE [@ EXCEPT !.pc = "read", !.i = 1,
                         !.candidates = buildResolutionCandidates(tasks[t].specifier)]]
    /\ UNCHANGED <<classIndex, config, disk, hist, everIndexed, ncalls, serverVars>>

\* lines 82-89: a read returns; the candidate, the next read, or null
ResolveRead(t) ==
    /\ tasks[t].op = "resolveImportPath" /\ tasks[t].pc = "read"
    /\ LET candidate == tasks[t].candidates[tasks[t].i]
           content == readFileContent(disk, candidate)
       IN  tasks' = [tasks EXCEPT ![t] =
              IF content # NoFile THEN [@ EXCEPT !.pc = "done", !.result = candidate]
              ELSE IF tasks[t].i = Len(tasks[t].candidates)
              THEN [@ EXCEPT !.pc = "done", !.result = NoFile]
              ELSE [@ EXCEPT !.i = tasks[t].i + 1]]
    /\ UNCHANGED <<classIndex, config, disk, hist, everIndexed, ncalls, serverVars>>

NextResolve ==
    \/ \E t \in TaskIds : ResolveCall(t)
    \/ \E t \in TaskIds : ResolveRead(t)

SpecResolve == InitResolve /\ [][NextResolve]_vars

\* the order in which the candidates of a specifier are to be tried
ClaimedCandidates(specifier) ==
    CASE specifier = "p" ->
           <<"p.scss", "p.css", "_p.scss", "_p.css",
             "p/_index.scss", "p/index.scss", "p/_index.css", "p/index.css">>
      [] specifier = "d/p" ->
           <<"d/p.scss", "d/p.css", "d/_p.scss", "d/_p.css",
             "d/p/_index.scss", "d/p/index.scss", "d/p/_index.css", "d/p/index.css">>
      [] specifier = "p.scss" -> <<"p.scss", "_p.scss">>
      [] specifier = "p.css" -> <<"p.css", "_p.css">>
      [] specifier = "d/p.scss" -> <<"d/p.scss", "d/_p.scss">>
      [] OTHER -> <<>>

MaxSegments == 3

\* one resolveOriginalPosition call: a map of one source whose mappings are an
\* optional empty first line and a line of four-field segments (column deltas
\* 0, 1, -1, 2; original line and column deltas 0, 1), any line, any column
InitPosition ==
    LET segments == { c \o "A" \o l \o o : c \in {"A", "C", "D", "E"},
                                           l \in {"A", "C"}, o \in {"A", "C"} }
        RECURSIVE Join(_)
        Join(segs) == IF Len(segs) = 1 THEN segs[1]
                      ELSE segs[1] \o "," \o Join(Tail(segs))
    IN
    /\ classIndex = EmptyIndex
    /\ config = DEFAULT_CONFIG
    /\ disk = [p \in Paths |-> NoFile]
    /\ \E n \in 1..MaxSegments :
         \E segs \in [1..n -> segments], lead \in {"", ";"},
            generatedLine \in 0..2, generatedColumn \in 0..3 :
            tasks = [t \in TaskIds |->
                      IF t = 1
                      THEN [op |-> "resolveOriginalPosition", pc |-> "call",
                            map |-> [sources |-> <<"b.scss">>,
                                     mappings |-> lead \o Join(segs), found |-> TRUE],
                            generatedLine |-> generatedLine,
                            generatedColumn |-> generatedColumn,
                            result |-> NoPosition]
                      ELSE NoTask]
    /\ hist = NoHist
    /\ everIndexed = {}
    /\ ncalls = 0
    /\ indexReady = FALSE
    /\ indexingInProgress = 0
    /\ siw = [k \in CallIds |-> NoSiw]
    /\ reqs = [r \in ReqIds |-> NoReq]
    /\ microtasks = <<>>

PositionReturn(t) ==
    /\ tasks[t].op = "resolveOriginalPosition" /\ tasks[t].pc = "call"
    /\ tasks' = [tasks EXCEPT ![t] =
          [@ EXCEPT !.pc = "done",
                    !.result = resolveOriginalPosition(tasks[t].map,
                                   tasks[t].generatedLine, tasks[t].generatedColumn,
                                   "a.css.map")]]
    /\ UNCHANGED <<classIndex, config, disk, hist, everIndexed, ncalls, serverVars>>

NextPosition == \E t \in TaskIds : PositionReturn(t)

SpecPosition == InitPosition /\ [][NextPosition]_vars

\* C21: on a generated line that has a segment, resolveOriginalPosition
\* answers with the last segment of the line whose generatedColumn is at most
\* the target column, and with the line's first segment when there is none.
LastSegmentAtOrBeforeColumn ==
    \A t \in TaskIds :
        tasks[t].op = "resolveOriginalPosition" /\ tasks[t].pc = "done" =>
            LET decoded == decodeMappings(tasks[t].map.mappings)
                line == IF tasks[t].generatedLine < Len(decoded.lines)
                        THEN decoded.lines[tasks[t].generatedLine + 1] ELSE <<>>
                at == { k \in DOMAIN line :
                          line[k].generatedColumn <= tasks[t].generatedColumn }
                used == IF at = {} THEN line[1]
                        ELSE line[CHOOSE k \in at : \A j \in at : j <= k]
            IN  ~decoded.threw /\ line # <<>> =>
                   /\ tasks[t].result.found
                   /\ tasks[t].result.originalLine = used.originalLine
                   /\ tasks[t].result.originalColumn = used.originalColumn



\* ---------------------------------------------------------------------------
\* getDefinitionDiagnostics (core/import-resolver.ts 215-243)
\* ---------------------------------------------------------------------------

\* the diagnostics of the duplicate definitions, class by class; the order of
\* allClassNames (the insertion order of the map) is not kept by the model
getDefinitionDiagnostics(ci) ==
    LET RECURSIVE Diagnostics(_)
        Diagnostics(allNames) ==
            IF allNames = {} THEN <<>>
            ELSE LET className == CHOOSE n \in allNames : TRUE
                     defs == lookup(ci, className)
                     files == { defs[i].filePath : i \in DOMAIN defs }
                 IN  (IF Cardinality(files) > 1
                      THEN [i \in DOMAIN defs |->
                              [className |-> className, filePath |-> defs[i].filePath,
                               line |-> defs[i].line, column |-> defs[i].column,
                               others |-> Cardinality(files) - 1]]
                      ELSE <<>>)
                     \o Diagnostics(allNames \ {className})
    IN  Diagnostics(DOMAIN ci.index)

\* the most definitions one file holds
MaxFileDefs == 2

\* one getDefinitionDiagnostics call on an index into which a.css, b.scss and
\* the style block of t.vue were indexed, each holding up to MaxFileDefs
\* rules for btn or card, one rule a line
InitDiagnostics ==
    LET Defs(names, filePath) ==
            [i \in DOMAIN names |-> [className |-> names[i], filePath |-> filePath,
                                     line |-> i - 1, column |-> 0]]
        Rules == UNION { [1..n -> {"btn", "card"}] : n \in 0..MaxFileDefs }
    IN
    /\ \E a \in Rules, b \in Rules, t \in Rules :
          classIndex = addDefinitions(
                          addDefinitions(
                             addDefinitions(EmptyIndex, Defs(a, "a.css"), 1),
                             Defs(b, "b.scss"), 1),
                          Defs(t, "t.vue"), 1)
    /\ config = DEFAULT_CONFIG
    /\ disk = [p \in Paths |-> NoFile]
    /\ tasks = [t \in TaskIds |->
                  IF t = 1
                  THEN [op |-> "getDefinitionDiagnostics", pc |-> "call",
                        result |-> <<>>]
                  ELSE NoTask]
    /\ hist = NoHist
    /\ everIndexed = {}
    /\ ncalls = 0
    /\ indexReady = FALSE
    /\ indexingInProgress = 0
    /\ siw = [k \in CallIds |-> NoSiw]
    /\ reqs = [r \in ReqIds |-> NoReq]
    /\ microtasks = <<>>

DiagnosticsReturn(t) ==
    /\ tasks[t].op = "getDefinitionDiagnostics" /\ tasks[t].pc = "call"
    /\ tasks' = [tasks EXCEPT ![t] =
          [@ EXCEPT !.pc = "done", !.result = getDefinitionDiagnostics(classIndex)]]
    /\ UNCHANGED <<classIndex, config, disk, hist, everIndexed, ncalls, serverVars>>

NextDiagnostics == \E t \in TaskIds : DiagnosticsReturn(t)

SpecDiagnostics == InitDiagnostics /\ [][NextDiagnostics]_vars

\* C22: getDefinitionDiagnostics returns, for a class defined in two or more
\* files, exactly one diagnostic for each file that defines it, however many
\* definitions the file holds, and none for a class defined in one file only.
OneDiagnosticPerFile ==
    \A t \in TaskIds :
        tasks[t].op = "getDefinitionDiagnostics" /\ tasks[t].pc = "done" =>
            \A n \in DOMAIN classIndex.index :
                LET defs == classIndex.index[n]
                    files == { defs[i].filePath : i \in DOMAIN defs }
                    Reported(f) == { i \in DOMAIN tasks[t].result :
                                        /\ tasks[t].result[i].className = n
                                        /\ tasks[t].result[i].filePath = f }
                IN  \A f \in Paths :
                       Cardinality(Reported(f)) =
                          IF Cardinality(files) > 1 /\ f \in files THEN 1 ELSE 0



\* ---------------------------------------------------------------------------
\* parseBem on its own (utils/bem.ts 6-49)
\* ---------------------------------------------------------------------------

\* the longest class name handed to parseBem
MaxClassLen == 4

\* one parseBem call: any string of up to MaxClassLen characters a, - and _,
\* with any two of the separators __, --, -, _ and the empty string
InitParseBem ==
    /\ classIndex = EmptyIndex
    /\ config = DEFAULT_CONFIG
    /\ disk = [p \in Paths |-> NoFile]
    /\ \E n \in 0..MaxClassLen :
         \E chars \in [1..n -> {"a", "-", "_"}],
            elementSep \in {"__", "--", "-", "_", ""},
            modifierSep \in {"__", "--", "-", "_", ""} :
            tasks = [t \in TaskIds |->
                      IF t = 1
                      THEN [op |-> "parseBem", pc |-> "call", className |-> Str(chars),
                            elementSep |-> elementSep, modifierSep |-> modifierSep,
                            result |-> NullBem]
                      ELSE NoTask]
    /\ hist = NoHist
    /\ everIndexed = {}
    /\ ncalls = 0
    /\ indexReady = FALSE
    /\ indexingInProgress = 0
    /\ siw = [k \in CallIds |-> NoSiw]
    /\ reqs = [r \in ReqIds |-> NoReq]
    /\ microtasks = <<>>

\* the function calls string methods on strings only: it has no exception exit
ParseBemReturn(t) ==
    /\ tasks[t].op = "parseBem" /\ tasks[t].pc = "call"
    /\ tasks' = [tasks EXCEPT ![t] =
          [@ EXCEPT !.pc = "done",
                    !.result = parseBem(tasks[t].className, tasks[t].elementSep,
                                        tasks[t].modifierSep)]]
    /\ UNCHANGED <<classIndex, config, disk, hist, everIndexed, ncalls, serverVars>>

NextParseBem == \E t \in TaskIds : ParseBemReturn(t)

SpecParseBem == InitParseBem /\ [][NextParseBem]_vars

\* str has an occurrence of search (every string has one of the empty string)
Contains(str, search) ==
    \E i \in 0..Len(str) : i + Len(search) <= Len(str)
                           /\ SubSeq(str, i + 1, i + Len(search)) = search

\* C23 as stated: parseBem(c) returns (the model's parseBem has no exception
\* exit), and for every string c that contains neither separator the result
\* is {block: c, element: null, modifier: null}.
PlainNameIsBlock ==
    \A t \in TaskIds :
        tasks[t].op = "parseBem" /\ tasks[t].pc = "done" =>
            /\ tasks[t].result.null \in BOOLEAN
            /\ ~Contains(tasks[t].className, tasks[t].elementSep)
               /\ ~Contains(tasks[t].className, tasks[t].modifierSep)
               => tasks[t].result = [null |-> FALSE, block |-> tasks[t].className,
                                     element |-> "", modifier |-> ""]

\* C23 amended: the same for every non-empty string c; parseBem("") is null.
NonEmptyPlainNameIsBlock ==
    \A t \in TaskIds :
        tasks[t].op = "parseBem" /\ tasks[t].pc = "done" =>
            /\ tasks[t].result.null \in BOOLEAN
            /\ tasks[t].className = "" => tasks[t].result.null
            /\ tasks[t].className # ""
               /\ ~Contains(tasks[t].className, tasks[t].elementSep)
               /\ ~Contains(tasks[t].className, tasks[t].modifierSep)
               => tasks[t].result = [null |-> FALSE, block |-> tasks[t].className,
                                     element |-> "", modifier |-> ""]

\* a name with single hyphens and underscores, parsed with the separators __
\* and --, came back as a plain block
HyphenatedPlainBlock ==
    \E t \in TaskIds :
        /\ tasks[t].op = "parseBem" /\ tasks[t].pc = "done"
        /\ tasks[t].className = "a-a_" /\ tasks[t].elementSep = "__"
        /\ tasks[t].modifierSep = "--"
        /\ tasks[t].result = [null |-> FALSE, block |-> "a-a_", element |-> "",
                              modifier |-> ""]


(***************************************************************************)
(* The recorded start of a selector                                        *)
(***************************************************************************)
\* the most pieces of text between the brace of the parent rule and a selector
MaxPieces == 3

\* What lies between a structural token and the next selector: a line break,
\* indentation, a declaration, a closed rule, and a declaration whose value is
\* a protocol-relative url.
Between ==
    { << "\n" >>, << " " >>, << "\t" >>,
      << "b", ":", "c", ";" >>,
      << ".", "b", "{", "}" >>,
      << "b", ":", "c", "(", "/", "/", "b", ")", ";" >> }

\* The rule .a{ inside the rule .c{ after some pieces.
SelectorStartInputs ==
    LET RECURSIVE Flatten(_)
        Flatten(pieces) ==
            IF pieces = <<>> THEN <<>> ELSE Head(pieces) \o Flatten(Tail(pieces))
    IN  UNION { { << ".", "c", "{" >> \o Flatten(pieces) \o << ".", "a", "{" >> :
                    pieces \in [1..n -> Between] } : n \in 0..MaxPieces }

InitSelectorStart ==
    /\ classIndex = EmptyIndex
    /\ config = DEFAULT_CONFIG
    /\ disk = CHOOSE d \in Disks : TRUE
    /\ \E content \in SelectorStartInputs, scssNesting \in BOOLEAN :
          tasks = [t \in TaskIds |->
                      IF t = 1 THEN ParseTask(content, scssNesting) ELSE NoTask]
    /\ hist = NoHist
    /\ everIndexed = {}
    /\ ncalls = 0
    /\ indexReady = FALSE
    /\ indexingInProgress = 0
    /\ siw = [k \in CallIds |-> NoSiw]
    /\ reqs = [r \in ReqIds |-> NoReq]
    /\ microtasks = <<>>

SpecSelectorStart == InitSelectorStart /\ [][NextParser]_vars

\* C29: each definition's line and column are the position of the first
\* non-whitespace character of its rule's selector, whatever line breaks,
\* indentation, declarations or closed rules precede the selector.
SelectorStartRecorded ==
    \A t \in TaskIds :
        Returned(t) /\ tasks[t].content \in SelectorStartInputs =>
            LET lines == tasks[t].lines
                defs == tasks[t].classes
            IN  \A i \in DOMAIN defs :
                    /\ defs[i].className = "c" =>
                          defs[i].line = 0 /\ defs[i].column = 0
                    /\ defs[i].className = "a" =>
                          /\ defs[i].line = Len(lines) - 1
                          /\ defs[i].column = Len(lines[Len(lines)]) - 3


(***************************************************************************)
(* <style> blocks of a host file, from the text                            *)
(***************************************************************************)
\* the characters of a string
Chars(str) == [i \in 1..Len(str) |-> SubSeq(str, i, i)]

\* the number of line breaks of a text: text.split("\n").length - 1
NewlinesIn(text) == Cardinality({ i \in DOMAIN text : text[i] = "\n" })

\* extractStyleBlocks on the characters of a host file: the matches of
\* /<style([^>]*)>([\s\S]*?)<\/style>/gi from left to right.
extractStyleBlocksOf(content) ==
    LET Lower(ch) == CASE ch = "S" -> "s" [] ch = "T" -> "t" [] ch = "Y" -> "y"
                       [] ch = "L" -> "l" [] ch = "E" -> "e" [] OTHER -> ch
        StartsAt(text, i, word) ==
            /\ i + Len(word) - 1 <= Len(text)
            /\ \A k \in 1..Len(word) : Lower(text[i + k - 1]) = word[k]
        Least(S) == IF S = {} THEN 0 ELSE CHOOSE i \in S : \A j \in S : i <= j
        \* the end of [^>]* after <style at s: the first ">"
        TagEnd(s) == Least({ g \in (s + 6)..Len(content) : content[g] = ">" })
        \* the end of the lazy [\s\S]*? after the tag: the first </style>
        BlockEnd(g) == Least({ e \in (g + 1)..Len(content) :
                                   StartsAt(content, e, Chars("</style>")) })
        Matches(s) == /\ StartsAt(content, s, Chars("<style"))
                      /\ TagEnd(s) # 0
                      /\ BlockEnd(TagEnd(s)) # 0
        \* attrs.match(/lang\s*=\s*["'](\w+)["']/), "css" when there is none
        Lang(attrs) ==
            LET Blank(ch) == ch \in {" ", "\t", "\n"}
                Quote(ch) == ch \in {"\"", "'"}
                RECURSIVE Skip(_)
                Skip(i) == IF i <= Len(attrs) /\ Blank(attrs[i]) THEN Skip(i + 1) ELSE i
                RECURSIVE Word(_)
                Word(i) == IF i <= Len(attrs) /\ ~Quote(attrs[i]) /\ ~Blank(attrs[i])
                              /\ attrs[i] # "="
                           THEN Word(i + 1) ELSE i
                Eq(i) == Skip(i + 4)
                Open(i) == Skip(Eq(i) + 1)
                Close(i) == Word(Open(i) + 1)
                Found(i) == /\ StartsAt(attrs, i, Chars("lang"))
                            /\ Eq(i) <= Len(attrs) /\ attrs[Eq(i)] = "="
                            /\ Open(i) <= Len(attrs) /\ Quote(attrs[Open(i)])
                            /\ Close(i) > Open(i) + 1
                            /\ Close(i) <= Len(attrs) /\ Quote(attrs[Close(i)])
                at == Least({ i \in DOMAIN attrs : Found(i) })
            IN  IF at = 0 THEN "css"
                ELSE Str(SubSeq(attrs, Open(at) + 1, Close(at) - 1))
        Block(s, g, e) ==
            LET beforeStyle == SubSeq(content, 1, s - 1)
                lineOffset == NewlinesIn(beforeStyle)
                openingTag == SubSeq(content, s, g)
                tagLines == NewlinesIn(openingTag)
            IN  [content |-> SubSeq(content, g + 1, e - 1),
                 lineOffset |-> lineOffset + tagLines,
                 lang |-> Lang(SubSeq(content, s + 6, g - 1))]
        RECURSIVE Exec(_)
        Exec(lastIndex) ==
            CHOOSE blocks \in
                { IF s = 0 THEN <<>>
                  ELSE CHOOSE rest \in
                         { << Block(s, g, e) >> \o Exec(e + 8) :
                             << g, e >> \in { << TagEnd(s), BlockEnd(TagEnd(s)) >> } } : TRUE
                  : s \in { Least({ i \in lastIndex..Len(content) : Matches(i) }) } } : TRUE
    IN  Exec(1)

\* the most lines of a host file before its <style> tag
MaxHostLines == 2

\* A host file: lines of markup, a <style> tag that may start in the middle of
\* a line and span several lines, a block with the rule .a{} in it, and
\* possibly a second block with the rule .b{}.
HostLines == { Chars("\n"), Chars("<p>\n"), Chars("<style-guide/>\n") }

HostLeads == { <<>>, Chars("<p/>") }

HostAttrs == { <<>>, Chars(" scoped"), Chars("\n lang=\"scss\""), Chars("\nscoped\n") }

\* the block content up to the selector .a
HostBodies == { <<>>, Chars("\n"), Chars("\n.b{}\n "), Chars(".b{b:c(//b);}\n") }

HostText(pre, attrs, body, more) ==
    pre \o Chars("<style") \o attrs \o Chars(">") \o body \o Chars(".a{}\n</style>")
    \o (IF more THEN Chars("\n<STYLE>\n.b{}</STYLE>") ELSE <<>>)

InitEmbedded ==
    /\ classIndex = EmptyIndex
    /\ config = DEFAULT_CONFIG
    /\ disk = [p \in Paths |-> NoFile]
    /\ \E n \in 0..MaxHostLines :
         \E lines \in [1..n -> HostLines], lead \in HostLeads, attrs \in HostAttrs,
            body \in HostBodies, more \in BOOLEAN :
            LET RECURSIVE Flatten(_)
                Flatten(ls) == IF ls = <<>> THEN <<>> ELSE Head(ls) \o Flatten(Tail(ls))
                pre == Flatten(lines) \o lead
            IN  tasks = [t \in TaskIds |->
                    IF t = 1
                    THEN [op |-> "indexEmbeddedStyles", pc |-> "extract",
                          filePath |-> "t.vue",
                          content |-> HostText(pre, attrs, body, more),
                          pre |-> pre, attrs |-> attrs, body |-> body, more |-> more,
                          blocks |-> <<>>, i |-> 0]
                    ELSE NoTask]
    /\ hist = NoHist
    /\ everIndexed = {}
    /\ ncalls = 0
    /\ indexReady = FALSE
    /\ indexingInProgress = 0
    /\ siw = [k \in CallIds |-> NoSiw]
    /\ reqs = [r \in ReqIds |-> NoReq]
    /\ microtasks = <<>>

\* const blocks = extractStyleBlocks(content)
EmbeddedExtract(t) ==
    /\ tasks[t].op = "indexEmbeddedStyles" /\ tasks[t].pc = "extract"
    /\ tasks' = [tasks EXCEPT ![t] =
          CHOOSE r \in { [tasks[t] EXCEPT !.blocks = blocks, !.i = 1,
                             !.pc = IF blocks = <<>> THEN "done" ELSE "parse"] :
                         blocks \in { extractStyleBlocksOf(tasks[t].content) } } : TRUE]
    /\ UNCHANGED <<classIndex, config, disk, hist, everIndexed, ncalls, serverVars>>

\* await this.parseClasses(block.content, filePath, block.lang): the regex
\* parser on the content of the block
EmbeddedParse(t) ==
    /\ tasks[t].op = "indexEmbeddedStyles" /\ tasks[t].pc = "parse"
    /\ tasks[2].op = "none"
    /\ tasks' = [tasks EXCEPT
          ![t].pc = "await",
          ![2] = ParseTask(tasks[t].blocks[tasks[t].i].content, TRUE)]
    /\ UNCHANGED <<classIndex, config, disk, hist, everIndexed, ncalls, serverVars>>

\* the loop over the definitions of the block, then the next block
EmbeddedInsert(t) ==
    /\ tasks[t].op = "indexEmbeddedStyles" /\ tasks[t].pc = "await"
    /\ Returned(2)
    /\ classIndex' =
          InsertBlock(classIndex,
                      [k \in DOMAIN tasks[2].classes |->
                          [className |-> tasks[2].classes[k].className,
                           filePath  |-> tasks[t].filePath,
                           line      |-> tasks[2].classes[k].line,
                           column    |-> tasks[2].classes[k].column]],
                      tasks[t].blocks[tasks[t].i].lineOffset)
    /\ tasks' = [tasks EXCEPT
          ![t].i = @ + 1,
          ![t].pc = IF tasks[t].i >= Len(tasks[t].blocks) THEN "done" ELSE "parse",
          ![2] = NoTask]
    /\ UNCHANGED <<config, disk, hist, everIndexed, ncalls, serverVars>>

NextEmbedded ==
    \/ \E t \in TaskIds : EmbeddedExtract(t)
    \/ \E t \in TaskIds : EmbeddedParse(t)
    \/ \E t \in TaskIds : ScanChar(t)
    \/ \E t \in TaskIds : EndOfLine(t)
    \/ \E t \in TaskIds : ParseReturn(t)
    \/ \E t \in TaskIds : EmbeddedInsert(t)

SpecEmbedded == InitEmbedded /\ [][NextEmbedded]_vars

\* C24: for every <style> block of a host file, wherever its tag starts and
\* however many lines the tag spans, lineOffset is the host line on which the
\* content of the block begins, and every embedded definition is stored at the
\* host line of its selector.
EmbeddedLinesAreHostLines ==
    \A t \in TaskIds :
        tasks[t].op = "indexEmbeddedStyles" /\ tasks[t].pc = "done" =>
            LET first == NewlinesIn(tasks[t].pre) + NewlinesIn(tasks[t].attrs)
                \* the line of .a{}, and of </style> one line further
                lineA == first + NewlinesIn(tasks[t].body)
                stored(c) == Get(classIndex.index, c, <<>>)
            IN  /\ Len(tasks[t].blocks) = IF tasks[t].more THEN 2 ELSE 1
                /\ tasks[t].blocks[1].lineOffset = first
                /\ \A k \in DOMAIN stored("a") : stored("a")[k].line = lineA
                /\ tasks[t].more =>
                      /\ tasks[t].blocks[2].lineOffset = lineA + 2
                      /\ \A k \in DOMAIN stored("b") :
                            stored("b")[k].line \in
                                {lineA + 3} \cup
                                (IF tasks[t].body = Chars("\n.b{}\n ") THEN {first + 1} ELSE
                                 IF tasks[t].body = Chars(".b{b:c(//b);}\n") THEN {first} ELSE {})


(***************************************************************************)
(* Rules nested inside at-rule blocks                                      *)
(***************************************************************************)
\* A parent rule, a block inside it, and a rule nested inside the block:
\*   parent { block { nested {} } }
\* The block is an at-rule with a condition, an at-rule without one, or a bare
\* brace; the parts are set apart by nothing, a space or a line break.
AtRuleParents == { Chars(".a"), Chars(".a,.c") }

AtRuleBlocks == { Chars("@m (c)"), Chars("@m b and (c:b)"), Chars("@s"), <<>> }

AtRuleNested == { Chars("&__b"), Chars("&-c"), Chars(".b"), Chars("& .b") }

AtRuleGaps == { <<>>, Chars(" "), Chars("\n") }

AtRuleText(parent, block, nested, gap) ==
    parent \o gap \o Chars("{") \o gap \o block \o gap \o Chars("{") \o gap
    \o nested \o gap \o Chars("{}}}")

InitAtRule ==
    /\ classIndex = EmptyIndex
    /\ config = DEFAULT_CONFIG
    /\ disk = [p \in Paths |-> NoFile]
    /\ \E parent \in AtRuleParents, block \in AtRuleBlocks, nested \in AtRuleNested,
          gap \in AtRuleGaps :
          tasks = [t \in TaskIds |->
                      IF t = 1
                      THEN ParseTask(AtRuleText(parent, block, nested, gap), TRUE)
                           @@ [parent |-> parent, block |-> block, nested |-> nested]
                      ELSE NoTask]
    /\ hist = NoHist
    /\ everIndexed = {}
    /\ ncalls = 0
    /\ indexReady = FALSE
    /\ indexingInProgress = 0
    /\ siw = [k \in CallIds |-> NoSiw]
    /\ reqs = [r \in ReqIds |-> NoReq]
    /\ microtasks = <<>>

SpecAtRule == InitAtRule /\ [][NextParser]_vars

\* C25: a rule nested inside an at-rule block that sits inside a parent rule is
\* resolved against the selectors of that parent, unchanged by the at-rule, and
\* every class of the resolved selectors that the parent does not hold gets a
\* definition (.a { @m (c) { &__b {} } } defines a__b).
NestedInAtRuleResolvesAgainstParent ==
    \A t \in TaskIds :
        Returned(t) =>
            LET parentSelectors == resolveSelectors(tasks[t].parent, <<>>, TRUE)
                expected == resolveSelectors(tasks[t].nested, parentSelectors, TRUE)
                rules == tasks[t].rules
                defined == { tasks[t].classes[i].className : i \in DOMAIN tasks[t].classes }
            IN  /\ rules[Len(rules)].resolved = expected
                /\ Range(ClassesOf(expected)) \subseteq defined


(***************************************************************************)
(* server.ts: the file events.  Each handler calls the index and awaits    *)
(* it; the connection hands the next message to its handler while earlier  *)
(* handlers are suspended at an await.                                     *)
(***************************************************************************)
\* onDidChangeWatchedFiles, lines 235-255, for an event with one change:
\* removeFile for a deleted file, otherwise indexFile without content
OnDidChangeWatchedFiles(filePath, deleted) ==
    IF deleted THEN RemoveFileCall(filePath)
    ELSE IndexFileCall(filePath, Undefined)

\* onDidSave, lines 258-283: indexFile with the text of the document for a
\* stylesheet; removeFile and indexEmbeddedStyles for a template when
\* searchEmbeddedStyles is set
OnDidSave(filePath, text) ==
    IF filePath \in StylePaths THEN IndexFileCall(filePath, text)
    ELSE /\ config.searchEmbeddedStyles
         /\ microtasks = <<>>
         /\ ncalls < MaxOps
         /\ ncalls' = ncalls + 1
         /\ Free # {}
         /\ LET ci     == removeFile(classIndex, filePath)
                blocks == extractStyleBlocks(text)
                call   == [op |-> "indexEmbeddedStyles", filePath |-> filePath,
                           content |-> text]
                h      == HistStart(HistSync(hist, [op |-> "removeFile",
                                                    filePath |-> filePath,
                                                    content |-> ""], ci),
                                    call, NewId)
            IN  /\ classIndex' = ci
                /\ IF blocks = <<>>
                   THEN /\ tasks' = tasks
                        /\ hist' = HistEnd(h, NewId, ci, everIndexed \cup {filePath})
                   ELSE /\ tasks' = [tasks EXCEPT ![NewId] =
                               [NoTask EXCEPT !.op = "indexEmbeddedStyles", !.pc = "block",
                                  !.filePath = filePath, !.content = text,
                                  !.blocks = blocks,
                                  !.viaTs = UsesTreeSitter(config, filePath,
                                                           blocks[1].lang)]]
                        /\ hist' = h
         /\ everIndexed' = everIndexed \cup {filePath}
         /\ UNCHANGED <<config, disk, serverVars>>

\* the documents that are saved: a stylesheet or a template with its text
SavedDocuments ==
    { <<"a.css", "btn">>, <<"b.scss", "card">> }
    \cup { << p, c >> : p \in TemplatePaths, c \in TemplateContents }

NextFileEvents ==
    \/ OnInitialized
    \/ \E c \in ConfigChanges : OnDidChangeConfiguration(c)
    \/ \E p \in {"a.css", "b.scss"}, deleted \in BOOLEAN :
          OnDidChangeWatchedFiles(p, deleted)
    \/ \E d \in SavedDocuments : OnDidSave(d[1], d[2])
    \/ RunMicrotask
    \/ \E t \in TaskIds : IndexFileRead(t)
    \/ \E t \in TaskIds : IndexFileParsed(t)
    \/ \E t \in TaskIds : IndexFileMapped(t)
    \/ \E t \in TaskIds : IndexEmbeddedStylesParsed(t)
    \/ WorkspaceStep

SpecFileEvents == Init /\ [][NextFileEvents]_vars

\* C26: the server never has two index-mutating operations for the same file
\* path in flight at once, whether started by a watched-file event, a save or
\* the indexing of the workspace, which covers every file.
OneOperationPerPath ==
    \A t, u \in Busy :
        t # u =>
            /\ tasks[t].op # "indexWorkspace"
            /\ tasks[u].op # "indexWorkspace"
            /\ tasks[t].filePath # tasks[u].filePath


(***************************************************************************)
(* server.ts under fair scheduling: the event loop runs every queued       *)
(* promise reaction, and every indexWorkspace execution is given its       *)
(* steps, so it returns or throws.  The handlers are called as the client  *)
(* pleases, safeIndexWorkspace MaxCalls times at most.                     *)
(***************************************************************************)
SpecServerFair ==
    /\ Init
    /\ [][NextServer]_vars
    /\ WF_vars(RunMicrotask)
    /\ SF_vars(WorkspaceStep)

\* C27: once safeIndexWorkspace has been called, and the calls being finitely
\* many, the server reaches indexingInProgress = null with indexReady = true
\* and stays there, and every waitForIndex call that waits returns.
IndexingSettles ==
    /\ (ncalls > 0) ~> [](indexingInProgress = 0 /\ indexReady)
    /\ \A r \in ReqIds : (reqs[r].pc = "waiting") ~> (reqs[r].pc # "waiting")

\* every call the bound allows has been made and has settled
AllCallsSettled ==
    /\ ncalls = MaxCalls
    /\ Busy = {} /\ ActiveCalls = {} /\ microtasks = <<>>
    /\ indexingInProgress = 0 /\ indexReady


(***************************************************************************)
(* parseScssDirectives, line by line and character by character            *)
(***************************************************************************)
\* contextClassName of a directive outside every class
NoContext == "<null>"

\* getCurrentClassContext: the nearest scope, from the inside out, whose raw
\* selector holds a class token; with & in it and a scope around it, the first
\* class token of the selector with & replaced by the context of the scopes
\* around it.
RECURSIVE getCurrentClassContext(_)
getCurrentClassContext(scopeStack) ==
    LET Nearest == { i \in DOMAIN scopeStack :
                       extractClassesFromSelector(scopeStack[i]) # <<>> }
        RECURSIVE ReplaceAmp(_, _)
        ReplaceAmp(selector, parent) ==
            IF selector = <<>> THEN <<>>
            ELSE (IF Head(selector) = "&" THEN parent ELSE << Head(selector) >>)
                 \o ReplaceAmp(Tail(selector), parent)
        At(i) ==
            CHOOSE ctx \in
              { IF (\E k \in DOMAIN selector : selector[k] = "&") /\ i > 1
                THEN CHOOSE c \in
                       { IF parentCtx # NoContext
                         THEN CHOOSE r \in
                                { IF resolvedMatch # <<>> THEN Head(resolvedMatch)
                                  ELSE Head(classMatch)
                                  : resolvedMatch \in
                                      { extractClassesFromSelector(
                                          ReplaceAmp(selector,
                                                     << "." >> \o Chars(parentCtx))) } }
                                : TRUE
                         ELSE Head(classMatch)
                         : parentCtx \in
                             { getCurrentClassContext(SubSeq(scopeStack, 1, i - 1)) } }
                       : TRUE
                ELSE Head(classMatch)
                : << selector, classMatch >> \in
                    { << scopeStack[i], extractClassesFromSelector(scopeStack[i]) >> } }
              : TRUE
    IN  IF Nearest = {} THEN NoContext
        ELSE At(CHOOSE i \in Nearest : \A j \in Nearest : j <= i)

\* the characters \w of the directive patterns, on the letters in use
IsWord(ch) ==
    ch \in {"a", "b", "c", "d", "e", "i", "l", "m", "n", "t", "u", "x", "_"}

\* The three patterns tried on a trimmed line:
\*   /^@mixin\s+([\w-]+)\s*(?:\(([^)]*)\))?\s*\{?\s*$/
\*   /^@extend\s+\.([\w-]+)\s*;?\s*$/
\*   /^@include\s+([\w.-]+)\s*(?:\([^)]*\))?\s*;?\s*$/
\* The result holds the keyword that matched ("" for none), the name captured
\* and the parameter text captured.
matchDirective(trimmedLine) ==
    LET s == trimmedLine
        n == Len(s)
        StartsWith(word) == n >= Len(word) /\ SubSeq(s, 1, Len(word)) = word
        RECURSIVE SkipSpace(_)
        SkipSpace(i) == IF i <= n /\ IsSpace(s[i]) THEN SkipSpace(i + 1) ELSE i
        RECURSIVE NameEnd(_, _)
        NameEnd(i, dots) ==
            IF i <= n /\ (IsWord(s[i]) \/ s[i] = "-" \/ (dots /\ s[i] = "."))
            THEN NameEnd(i + 1, dots) ELSE i
        \* (?:\(([^)]*)\))? from i: the index after it, i when there is no group
        RECURSIVE GroupClose(_)
        GroupClose(i) == IF i > n THEN 0 ELSE IF s[i] = ")" THEN i ELSE GroupClose(i + 1)
        AfterGroup(i) ==
            IF i <= n /\ s[i] = "(" /\ GroupClose(i + 1) # 0
            THEN GroupClose(i + 1) + 1 ELSE i
        \* \s* then an optional closing character, \s* and the end of the line
        Ends(i, closing) ==
            LET j == SkipSpace(i)
                k == IF j <= n /\ s[j] = closing THEN SkipSpace(j + 1) ELSE j
            IN  k = n + 1
        None == [keyword |-> "", name |-> "", params |-> <<>>]
        \* keyword, \s+, an optional dot, the name, \s*, the optional group, the end
        Try(keyword, dot, dots, closing, grouped) ==
            IF ~StartsWith(Chars(keyword)) THEN None
            ELSE CHOOSE m \in
                   { IF from = Len(keyword) + 1 THEN None
                     ELSE IF dot /\ ~(from <= n /\ s[from] = ".") THEN None
                     ELSE CHOOSE r \in
                            { IF to = first THEN None
                              ELSE CHOOSE q \in
                                     { IF Ends(after, closing)
                                       THEN [keyword |-> keyword,
                                             name |-> Str(SubSeq(s, first, to - 1)),
                                             params |->
                                                 IF after > open
                                                 THEN SubSeq(s, open + 1, after - 2)
                                                 ELSE <<>>]
                                       ELSE None
                                       : << open, after >> \in
                                           { IF grouped
                                             THEN << SkipSpace(to),
                                                     AfterGroup(SkipSpace(to)) >>
                                             ELSE << to, to >> } } : TRUE
                              : << first, to >> \in
                                  { << IF dot THEN from + 1 ELSE from,
                                       NameEnd(IF dot THEN from + 1 ELSE from, dots) >> } }
                            : TRUE
                     : from \in { SkipSpace(Len(keyword) + 1) } } : TRUE
    IN  [mixin   |-> Try("@mixin", FALSE, FALSE, "{", TRUE),
         extend  |-> Try("@extend", TRUE, FALSE, ";", FALSE),
         include |-> Try("@include", FALSE, TRUE, ";", TRUE)]

\* paramsStr.split(","), each trimmed, without its leading $ and its default
\* value, the empty ones dropped
mixinParameters(paramsStr) ==
    LET RECURSIVE Split(_, _)
        Split(rest, current) ==
            IF rest = <<>> THEN << current >>
            ELSE IF Head(rest) = "," THEN << current >> \o Split(Tail(rest), <<>>)
            ELSE Split(Tail(rest), Append(current, Head(rest)))
        RECURSIVE UpToColon(_)
        UpToColon(p) ==
            IF p = <<>> \/ Head(p) = ":" THEN <<>> ELSE << Head(p) >> \o UpToColon(Tail(p))
        Clean(p) ==
            LET t == trim(p)
                u == IF t # <<>> /\ Head(t) = "$" THEN Tail(t) ELSE t
            IN  Str(trim(UpToColon(u)))
        parts == Split(paramsStr, <<>>)
    IN  SelectSeq([i \in DOMAIN parts |-> Clean(parts[i])], LAMBDA p : p # "")

\* line.indexOf(keyword)
lineIndexOf(line, keyword) ==
    LET word == Chars(keyword)
        at == { i \in 1..(Len(line) - Len(word) + 1) :
                  SubSeq(line, i, i + Len(word) - 1) = word }
    IN  IF at = {} THEN -1 ELSE (CHOOSE i \in at : \A j \in at : i <= j) - 1

DirectiveTask(content) ==
    [op |-> "parseScssDirectives", pc |-> "line", content |-> content,
     lines |-> ParseTask(content, TRUE).lines,
     lineIdx |-> 0, col |-> 0,
     scopeStack |-> <<>>, selectorBuffer |-> <<>>,
     inComment |-> FALSE, inLineComment |-> FALSE, inString |-> "",
     mixins |-> <<>>, extends |-> <<>>, includes |-> <<>>]

\* The head of the loop over the lines: the patterns are tried on the trimmed
\* line when no comment and no string is open at its start.
DirectiveLineStep(p) ==
    LET line == p.lines[p.lineIdx + 1]
        found(m) == m.keyword # ""
    IN  CHOOSE q \in
          { [p EXCEPT
               !.inLineComment = FALSE,
               !.pc = "scan",
               !.mixins =
                   IF ~p.inComment /\ p.inString = "" /\ found(m.mixin)
                   THEN Append(@, [name |-> m.mixin.name, line |-> p.lineIdx,
                                   column |-> lineIndexOf(line, "@mixin"),
                                   parameters |-> mixinParameters(m.mixin.params)])
                   ELSE @,
               !.extends =
                   IF ~p.inComment /\ p.inString = "" /\ found(m.extend)
                   THEN Append(@, [targetClassName |-> m.extend.name,
                                   sourceClassName |->
                                       IF ctx = NoContext THEN "(unknown)" ELSE ctx,
                                   line |-> p.lineIdx,
                                   column |-> lineIndexOf(line, "@extend")])
                   ELSE @,
               !.includes =
                   IF ~p.inComment /\ p.inString = "" /\ found(m.include)
                   THEN Append(@, [mixinName |-> m.include.name,
                                   contextClassName |-> ctx,
                                   line |-> p.lineIdx,
                                   column |-> lineIndexOf(line, "@include")])
                   ELSE @]
            : << m, ctx >> \in { << matchDirective(trim(line)),
                                    getCurrentClassContext(p.scopeStack) >> } } : TRUE

\* A slip of the directive parser: a quote closes a string after a backslash too.
DirectiveScanStepNoEscape(p) ==
    LET line == p.lines[p.lineIdx + 1]
        ch   == line[p.col + 1]
        next == IF p.col + 1 < Len(line) THEN line[p.col + 2] ELSE ""
        step(q) == [q EXCEPT !.col = @ + 1]
    IN  IF p.inString # ""
        THEN step([p EXCEPT
                    !.inString = IF ch = p.inString THEN "" ELSE @])
        ELSE IF p.inComment
        THEN IF ch = "*" /\ next = "/"
             THEN step([p EXCEPT !.inComment = FALSE, !.col = @ + 1])
             ELSE step(p)
        ELSE IF p.inLineComment
        THEN step(p)
        ELSE IF ch = "/" /\ next = "*"
        THEN step([p EXCEPT !.inComment = TRUE, !.col = @ + 1])
        ELSE IF ch = "/" /\ next = "/"
        THEN step([p EXCEPT !.inLineComment = TRUE])
        ELSE IF ch \in {"\"", "'"}
        THEN step([p EXCEPT !.inString = ch])
        ELSE step(CASE ch = "{" ->
                         [p EXCEPT !.selectorBuffer = <<>>,
                                   !.scopeStack = Append(@, trim(p.selectorBuffer))]
                    [] ch = "}" ->
                         [p EXCEPT !.selectorBuffer = <<>>,
                                   !.scopeStack =
                                       IF Len(@) > 0 THEN SubSeq(@, 1, Len(@) - 1) ELSE @]
                    [] ch = ";" -> [p EXCEPT !.selectorBuffer = <<>>]
                    [] OTHER -> [p EXCEPT !.selectorBuffer = Append(@, ch)])

\* One pass of the loop over the columns of a line.
DirectiveScanStep(p) ==
    LET line == p.lines[p.lineIdx + 1]
        ch   == line[p.col + 1]
        next == IF p.col + 1 < Len(line) THEN line[p.col + 2] ELSE ""
        step(q) == [q EXCEPT !.col = @ + 1]
    IN  IF p.inString # ""
        THEN step([p EXCEPT
                    !.inString = IF ch = p.inString /\ (p.col = 0 \/ line[p.col] # "\\")
                                 THEN "" ELSE @])
        ELSE IF p.inComment
        THEN IF ch = "*" /\ next = "/"
             THEN step([p EXCEPT !.inComment = FALSE, !.col = @ + 1])
             ELSE step(p)
        ELSE IF p.inLineComment
        THEN step(p)
        ELSE IF ch = "/" /\ next = "*"
        THEN step([p EXCEPT !.inComment = TRUE, !.col = @ + 1])
        ELSE IF ch = "/" /\ next = "/"
        THEN step([p EXCEPT !.inLineComment = TRUE])
        ELSE IF ch \in {"\"", "'"}
        THEN step([p EXCEPT !.inString = ch])
        ELSE step(CASE ch = "{" ->
                         [p EXCEPT !.selectorBuffer = <<>>,
                                   !.scopeStack = Append(@, trim(p.selectorBuffer))]
                    [] ch = "}" ->
                         [p EXCEPT !.selectorBuffer = <<>>,
                                   !.scopeStack =
                                       IF Len(@) > 0 THEN SubSeq(@, 1, Len(@) - 1) ELSE @]
                    [] ch = ";" -> [p EXCEPT !.selectorBuffer = <<>>]
                    [] OTHER -> [p EXCEPT !.selectorBuffer = Append(@, ch)])

InDirectives(t, pc) == tasks[t].op = "parseScssDirectives" /\ tasks[t].pc = pc

DirectiveLine(t) ==
    /\ InDirectives(t, "line")
    /\ tasks[t].lineIdx < Len(tasks[t].lines)
    /\ tasks' = [tasks EXCEPT ![t] = DirectiveLineStep(@)]
    /\ UNCHANGED <<classIndex, config, disk, hist, everIndexed, ncalls, serverVars>>

DirectiveScan(t) ==
    /\ InDirectives(t, "scan")
    /\ tasks[t].col < Len(tasks[t].lines[tasks[t].lineIdx + 1])
    /\ tasks' = [tasks EXCEPT ![t] = DirectiveScanStep(@)]
    /\ UNCHANGED <<classIndex, config, disk, hist, everIndexed, ncalls, serverVars>>

\* the end of a line: the implicit separator, then the next line
DirectiveEndOfLine(t) ==
    /\ InDirectives(t, "scan")
    /\ tasks[t].col >= Len(tasks[t].lines[tasks[t].lineIdx + 1])
    /\ tasks' = [tasks EXCEPT ![t] =
          [@ EXCEPT !.selectorBuffer =
                        IF Len(@) > 0 /\ ~tasks[t].inComment THEN Append(@, " ") ELSE @,
                    !.lineIdx = @ + 1, !.col = 0, !.pc = "line"]]
    /\ UNCHANGED <<classIndex, config, disk, hist, everIndexed, ncalls, serverVars>>

\* return { mixins, extends, includes }
DirectiveReturn(t) ==
    /\ InDirectives(t, "line")
    /\ tasks[t].lineIdx >= Len(tasks[t].lines)
    /\ tasks' = [tasks EXCEPT ![t].pc = "done"]
    /\ UNCHANGED <<classIndex, config, disk, hist, everIndexed, ncalls, serverVars>>

NextDirectives ==
    \/ \E t \in TaskIds : DirectiveLine(t)
    \/ \E t \in TaskIds : DirectiveScan(t)
    \/ \E t \in TaskIds : DirectiveEndOfLine(t)
    \/ \E t \in TaskIds : DirectiveReturn(t)

(***************************************************************************)
(* The class context of @extend and @include                               *)
(***************************************************************************)
\* A statement on a line of its own inside a rule, or inside a rule nested in
\* a rule: the outer selector names a class or an element, the nested one
\* appends to &, names a class, or names a class below &.
DirectiveOuter == { Chars(".a"), Chars("d") }

DirectiveNested == { <<>>, Chars("&__b"), Chars("&-c"), Chars(".c"), Chars("& .c") }

DirectiveStatements ==
    { Chars("@extend .b;"), Chars("@extend .b"), Chars("@include c;"),
      Chars("@include c.d(b);") }

DirectiveText(outer, nested, statement, gap) ==
    outer \o Chars(" {\n")
    \o (IF nested = <<>> THEN <<>> ELSE gap \o nested \o Chars(" {\n"))
    \o gap \o statement \o Chars("\n")
    \o (IF nested = <<>> THEN <<>> ELSE Chars("}\n")) \o Chars("}")

InitDirectives ==
    /\ classIndex = EmptyIndex
    /\ config = DEFAULT_CONFIG
    /\ disk = [p \in Paths |-> NoFile]
    /\ \E outer \in DirectiveOuter, nested \in DirectiveNested,
          statement \in DirectiveStatements, gap \in { <<>>, Chars("  "), Chars("\t") } :
          tasks = [t \in TaskIds |->
                      IF t = 1
                      THEN DirectiveTask(DirectiveText(outer, nested, statement, gap))
                           @@ [outer |-> outer, nested |-> nested]
                      ELSE NoTask]
    /\ hist = NoHist
    /\ everIndexed = {}
    /\ ncalls = 0
    /\ indexReady = FALSE
    /\ indexingInProgress = 0
    /\ siw = [k \in CallIds |-> NoSiw]
    /\ reqs = [r \in ReqIds |-> NoReq]
    /\ microtasks = <<>>

SpecDirectives == InitDirectives /\ [][NextDirectives]_vars

\* the class of the rule written `nested` inside the rule written `outer`: the
\* last class of its resolved selector
ClassOfRule(outer, nested) ==
    LET resolved == IF nested = <<>> THEN resolveSelectors(outer, <<>>, TRUE)
                    ELSE resolveSelectors(nested, resolveSelectors(outer, <<>>, TRUE), TRUE)
        classes == ClassesOf(resolved)
    IN  IF classes = <<>> THEN NoContext ELSE classes[Len(classes)]

\* C28: for every @extend or @include inside a rule, the recorded class
\* context is the class of the rule that contains the statement, resolved
\* against the parent when the rule is written with & (&__b inside .a gives
\* a__b).
ContextIsContainingClass ==
    \A t \in TaskIds :
        InDirectives(t, "done") =>
            LET expected == ClassOfRule(tasks[t].outer, tasks[t].nested)
            IN  /\ \A i \in DOMAIN tasks[t].extends :
                      tasks[t].extends[i].sourceClassName =
                          IF expected = NoContext THEN "(unknown)" ELSE expected
                /\ \A i \in DOMAIN tasks[t].includes :
                      tasks[t].includes[i].contextClassName = expected


(***************************************************************************)
(* The two parsers on one text                                             *)
(***************************************************************************)
\* the longest text both parsers are run on
MaxLexLen == 4

\* the characters that open and close comments, strings and scopes, and the
\* backslash
ScopeChars == {"\"", "\\", "/", "*", "\n", "{", "}"}

InitBoth ==
    /\ classIndex = EmptyIndex
    /\ config = DEFAULT_CONFIG
    /\ disk = [p \in Paths |-> NoFile]
    /\ \E n \in 0..MaxLexLen :
         \E content \in [1..n -> ScopeChars] :
            tasks = [t \in TaskIds |->
                        IF t = 1 THEN ParseTask(content, TRUE)
                        ELSE IF t = 2 THEN DirectiveTask(content)
                        ELSE NoTask]
    /\ hist = NoHist
    /\ everIndexed = {}
    /\ ncalls = 0
    /\ indexReady = FALSE
    /\ indexingInProgress = 0
    /\ siw = [k \in CallIds |-> NoSiw]
    /\ reqs = [r \in ReqIds |-> NoReq]
    /\ microtasks = <<>>

NextBoth == NextParser \/ NextDirectives

SpecBoth == InitBoth /\ [][NextBoth]_vars

\* C30: at every position of every text the directive parser's comment state,
\* string state and scope depth are those of the class parser at that
\* position; the depth, the length of the scope stack, is never negative.
ParsersAgreeAtEveryPosition ==
    \A t, u \in TaskIds :
        /\ tasks[t].op = "parseCssClasses"
        /\ tasks[u].op = "parseScssDirectives"
        /\ tasks[t].content = tasks[u].content
        /\ tasks[t].lineIdx = tasks[u].lineIdx
        /\ tasks[t].col = tasks[u].col
        => /\ tasks[u].inComment = tasks[t].inComment
           /\ tasks[u].inString = tasks[t].inString
           /\ tasks[u].pc = "scan" => tasks[u].inLineComment = tasks[t].inLineComment
           /\ Len(tasks[u].scopeStack) = Len(tasks[t].scopeStack)
           /\ Len(tasks[t].scopeStack) >= 0

\* both parsers at the end of the text } { / * : the unmatched } left the depth
\* at zero, the { raised it to one, and the comment is open
BothAfterUnmatchedBrace ==
    /\ Returned(1) /\ InDirectives(2, "done")
    /\ tasks[1].content = << "}", "{", "/", "*" >>
    /\ tasks[2].content = tasks[1].content
    /\ Len(tasks[1].scopeStack) = 1 /\ Len(tasks[2].scopeStack) = 1
    /\ tasks[1].inComment /\ tasks[2].inComment

====
